---- MODULE Spec2Model ----
(***************************************************************************)
(* Model of the routing core of the Aura accessible-route backend          *)
(* (src/backend/app/services): the provider-fallback chain of              *)
(* AdvancedRoutingEngine.calculate_route, the engines it delegates to, the *)
(* lattice pathfinder, the grid fallback and the accessibility scorer.     *)
(*                                                                         *)
(* Number representation.  TLA+ has integers only, so                      *)
(*   - a coordinate is an integer count of 1e-4 degrees                    *)
(*     (37.7749 deg -> 377749);                                            *)
(*   - a distance is an integer count of metres;                           *)
(*   - an unrounded score is an integer count of 1e-6 (micro), a rounded   *)
(*     score an integer count of 1e-3 (milli).                             *)
(***************************************************************************)
EXTENDS Integers, Sequences, FiniteSets, TLC

(***************************************************************************)
(* Bounds of the model                                                     *)
(***************************************************************************)
\* most coordinates a directions provider's geometry holds in the model
MaxGeom == 3
\* most calculate_route calls made on the one engine in a behaviour
MaxCalls == 2

(***************************************************************************)
(* Generic helpers                                                         *)
(***************************************************************************)
Abs(x) == IF x < 0 THEN -x ELSE x

Min2(a, b) == IF a <= b THEN a ELSE b

Max2(a, b) == IF a >= b THEN a ELSE b

RECURSIVE SqrtSearch(_, _, _)
\* largest r in lo..hi with r*r <= n (lo*lo <= n < (hi+1)*(hi+1))
SqrtSearch(n, lo, hi) ==
    IF lo >= hi THEN lo
    ELSE LET mid == (lo + hi + 1) \div 2
         IN IF mid * mid <= n THEN SqrtSearch(n, mid, hi)
                              ELSE SqrtSearch(n, lo, mid - 1)

\* math.sqrt on the integers (floor); 46340 is the largest root of a 31-bit n
ISqrt(n) == SqrtSearch(n, 0, 46340)

RECURSIVE SumSeq(_)
SumSeq(s) == IF s = <<>> THEN 0 ELSE Head(s) + SumSeq(Tail(s))

(***************************************************************************)
(* Haversine distance, as every engine's _calculate_distance computes it.  *)
(* cos() is a per-degree table with linear interpolation (1e-4 fixed       *)
(* point); sin(x/2)**2 and asin(sqrt(a)) are taken at their small-angle    *)
(* values up to deltas of FarDelta (exact to about a metre at the          *)
(* pedestrian scale of the program) and from the table beyond.             *)
(***************************************************************************)
CosTable ==
    << 10000, 9998, 9994, 9986, 9976, 9962, 9945, 9925, 9903, 9877,
       9848, 9816, 9781, 9744, 9703, 9659, 9613, 9563, 9511, 9455,
       9397, 9336, 9272, 9205, 9135, 9063, 8988, 8910, 8829, 8746,
       8660, 8572, 8480, 8387, 8290, 8192, 8090, 7986, 7880, 7771,
       7660, 7547, 7431, 7314, 7193, 7071, 6947, 6820, 6691, 6561,
       6428, 6293, 6157, 6018, 5878, 5736, 5592, 5446, 5299, 5150,
       5000, 4848, 4695, 4540, 4384, 4226, 4067, 3907, 3746, 3584,
       3420, 3256, 3090, 2924, 2756, 2588, 2419, 2250, 2079, 1908,
       1736, 1564, 1392, 1219, 1045, 872, 698, 523, 349, 175,
       0, -175 >>

\* one degree, in coordinate units (coordinates carry the 4 decimals of
\* _generate_cache_key's :.4f)
Degree == 10 * 1000

\* largest coordinate delta (0.3 degree) taken at small-angle values
FarDelta == 3000

\* the value of a per-degree table at d whole degrees and f units
TableBetween(table, d, f) ==
    table[d + 1] - (((table[d + 1] - table[d + 2]) * f) \div Degree)

\* math.cos(math.radians(lat)) * 1e4
CosE4(lat) ==
    IF Abs(lat) \div Degree >= 90 THEN 0
    ELSE TableBetween(CosTable, Abs(lat) \div Degree, Abs(lat) % Degree)

\* R = 6371000: Earth's radius in meters
EarthRadius == 6371000

\* R * radians(1e-4 degree), in centimetres per coordinate unit
\* (pi / 180 = 0.017453)
MetresPerUnitE2 == ((EarthRadius \div 1000) * 17453) \div 100000

\* math.cos of an angle of any size (coordinate units), times 1e4
CosFull(x) ==
    LET Folded(a) == IF a > 180 * Degree THEN 360 * Degree - a ELSE a
        Quadrant(b) ==
            (IF b <= 90 * Degree THEN 1 ELSE -1)
            * CosE4(IF b <= 90 * Degree THEN b ELSE 180 * Degree - b)
    IN Quadrant(Folded(Abs(x) % (360 * Degree)))

RECURSIVE ACosSearch(_, _, _)
\* largest whole degree d in lo..hi with cos(d) >= c, for 0 <= c <= 10000
\* (cos(lo) >= c holds)
ACosSearch(c, lo, hi) ==
    IF lo >= hi THEN lo
    ELSE LET mid == (lo + hi + 1) \div 2
         IN IF CosTable[mid + 1] >= c THEN ACosSearch(c, mid, hi)
                                      ELSE ACosSearch(c, lo, mid - 1)

\* the angle in 0..90 degrees whose cosine is c / 1e4, in coordinate units
ACosQuadrant(c) ==
    LET Between(table, d) ==
            IF d >= 90 THEN 90 * Degree
            ELSE d * Degree
                 + ((table[d + 1] - c) * Degree) \div (table[d + 1] - table[d + 2])
    IN Between(CosTable, ACosSearch(c, 0, 90))

\* math.acos on -1e4..1e4, in coordinate units
ACosUnits(c) ==
    (IF c >= 0 THEN 0 ELSE 180 * Degree)
    + (IF c >= 0 THEN 1 ELSE -1) * ACosQuadrant(Min2(Abs(c), 10000))

\* R * c of the Haversine formula, in metres, from the two deltas.  Within
\* FarDelta the small-angle form is used; beyond it
\* a = hav(dlat) + cos(lat1) cos(lat2) hav(dlon), c = acos(1 - 2a) from the
\* cosine table.
HaversineMetres(dlat, dlon, lat1, lat2) ==
    LET Near(x, yy, cc) ==
            (ISqrt((x * x + ((yy \div 100) * cc) \div 100
                          + ((yy % 100) * cc) \div 10000) * 100)
             * MetresPerUnitE2) \div 1000
        Hav(delta) == (10000 - CosFull(delta)) \div 2
        Far(hlat, hlon, cc) ==
            (ACosUnits(10000 - 2 * (hlat + (cc * hlon) \div 10000))
             * MetresPerUnitE2) \div 100
        From(cc) ==
            IF Abs(dlat) <= FarDelta /\ Abs(dlon) <= FarDelta
            THEN Near(Abs(dlat), Abs(dlon) * Abs(dlon), cc)
            ELSE Far(Hav(dlat), Hav(dlon), cc)
    IN From((CosE4(lat1) * CosE4(lat2)) \div 10000)

\* AdvancedRoutingEngine._calculate_distance (and the identical copies in
\* RoadNetworkRouter, GridBasedRoutingEngine, ObstacleDetector,
\* AccessibilityAnalyzer, OsrmRoutingEngine._distance)
calculate_distance(lat1, lon1, lat2, lon2) ==
    HaversineMetres(lat2 - lat1, lon2 - lon1, lat1, lat2)

\* MapboxRoutingEngine._calculate_distance: `dlon = lat2 - lon1`
Mapbox_calculate_distance(lat1, lon1, lat2, lon2) ==
    HaversineMetres(lat2 - lat1, lat2 - lon1, lat1, lat2)


(***************************************************************************)
(* Text.  A feature or warning string is kept as written in the source     *)
(* (without its emoji prefix); `kw in s.lower()` is the substring table    *)
(* below, computed from the strings themselves.                            *)
(***************************************************************************)
KeywordsIn(s) ==
    CASE s = "Safe intersection"                  -> {"safe"}
      [] s = "High accessibility route"           -> {"lit"}
      [] s = "Pedestrian-only area"               -> {"pedestrian"}
      [] s = "Wide sidewalk"                      -> {"wide"}
      [] s = "Intersection with good visibility"  -> {"lit"}
      [] s = "Uneven cracked surface"             -> {"uneven", "cracked"}
      [] s = "Narrow width ahead"                 -> {"narrow", "width"}
      [] s = "Unsafe crossing, busy road traffic" ->
             {"safe", "unsafe", "traffic", "crossing", "busy road"}
      [] s = "Well-lit protected crossing"        ->
             {"well-lit", "protected", "lit", "crossing"}
      [] s = "Wider sidewalk with lighting"       -> {"wide", "wider", "lighting"}
      [] OTHER                                    -> {}

\* any(keyword in s.lower() for keyword in kws)
HasAny(s, kws) == KeywordsIn(s) \cap kws # {}

\* number of strings of the sequence ss that hold one of kws
RECURSIVE CountHolding(_, _)
CountHolding(ss, kws) ==
    IF ss = <<>> THEN 0
    ELSE (IF HasAny(Head(ss), kws) THEN 1 ELSE 0) + CountHolding(Tail(ss), kws)

\* the same count over a field (features or warnings) of every point
RECURSIVE CountOverPoints(_, _, _)
CountOverPoints(points, field, kws) ==
    IF points = <<>> THEN 0
    ELSE CountHolding(Head(points)[field], kws)
         + CountOverPoints(Tail(points), field, kws)

\* number of points one of whose warnings holds kw
\* (`kw in " ".join(point.warnings).lower()`, once per point)
RECURSIVE PointsWarning(_, _)
PointsWarning(points, kw) ==
    IF points = <<>> THEN 0
    ELSE (IF CountHolding(Head(points).warnings, {kw}) > 0 THEN 1 ELSE 0)
         + PointsWarning(Tail(points), kw)

(***************************************************************************)
(* AccessibilityAnalyzer (accessibility_analyzer.py).  Scores in micro     *)
(* (1e-6) until rounded to milli (1e-3).                                   *)
(***************************************************************************)
One == 1000 * 1000

\* max(0.0, min(1.0, x))
Clamp01(x) == Max2(0, Min2(One, x))

\* a weight table whose last weight is 0.17 instead of 0.07
scoring_weights_heavy_traffic ==
    [ surface_quality     |-> 20,
      slope_accessibility |-> 25,
      obstacle_avoidance  |-> 20,
      width_adequacy      |-> 10,
      safety_rating       |-> 10,
      lighting_adequacy   |-> 8,
      traffic_safety      |-> 17 ]

\* self.scoring_weights, in hundredths
scoring_weights ==
    [ surface_quality     |-> 20,
      slope_accessibility |-> 25,
      obstacle_avoidance  |-> 20,
      width_adequacy      |-> 10,
      safety_rating       |-> 10,
      lighting_adequacy   |-> 8,
      traffic_safety      |-> 7 ]

SubScores == DOMAIN scoring_weights

RECURSIVE SurfacePenalty(_)
SurfacePenalty(obstacles) ==
    IF obstacles = <<>> THEN 0
    ELSE LET o == Head(obstacles)
             p == CASE o.severity = "critical" -> 400000
                    [] o.severity = "high"     -> 300000
                    [] o.severity = "medium"   -> 200000
                    [] o.severity = "low"      -> 100000
                    [] OTHER                   -> 100000
         IN (IF o.type \in {"broken_surface", "narrow_path"} THEN p ELSE 0)
            + SurfacePenalty(Tail(obstacles))

\* the surface score without its final max(0.0, min(1.0, ...))
_analyze_surface_quality_unclamped(route_points, obstacles) ==
    900000 - SurfacePenalty(obstacles)
    - Min2(50000 * PointsWarning(route_points, "uneven")
           + 100000 * PointsWarning(route_points, "cracked"), 300000)

_analyze_surface_quality(route_points, obstacles) ==
    LET base_score == 900000 - SurfacePenalty(obstacles)
        surface_variation_penalty ==
            50000 * PointsWarning(route_points, "uneven")
            + 100000 * PointsWarning(route_points, "cracked")
    IN Clamp01(base_score - Min2(surface_variation_penalty, 300000))

\* the slope score of the segment ending at point i (i >= 2), or <<>> when
\* one of its two elevations is None
SegmentSlopeScore(route_points, i, preferences) ==
    LET p == route_points[i - 1]
        q == route_points[i]
    IN IF p.elevation = <<>> \/ q.elevation = <<>> THEN <<>>
       ELSE LET elevation_change == Abs(q.elevation[1] - p.elevation[1])
                \* slope percentage, in 1e-4 percent
                Slope(distance) ==
                    IF distance > 0
                    THEN (elevation_change * 100 * 10000) \div Max2(distance, 1)
                    ELSE 0
                threshold == preferences.max_slope_percentage * 10000
                Scored(slope) ==
                    IF slope <= threshold THEN <<One>>
                    ELSE <<Max2(0, One - Min2(One, (slope - threshold) * 10))>>
            IN Scored(Slope(calculate_distance(p.latitude, p.longitude,
                                               q.latitude, q.longitude)))

RECURSIVE SlopeScores(_, _, _)
SlopeScores(route_points, i, preferences) ==
    IF i > Len(route_points) THEN <<>>
    ELSE SegmentSlopeScore(route_points, i, preferences)
         \o SlopeScores(route_points, i + 1, preferences)

_analyze_slope_accessibility(route_points, preferences) ==
    IF Len(route_points) < 2 THEN One
    ELSE LET Mean(slope_scores) ==
                 IF slope_scores # <<>>
                 THEN SumSeq(slope_scores) \div Len(slope_scores)
                 ELSE 800000
         IN Mean(SlopeScores(route_points, 2, preferences))

\* one obstacle's severity_penalty after the amplifications
ObstaclePenalty(o, preferences) ==
    LET p0 == CASE o.severity = "critical" -> 500000
                [] o.severity = "high"     -> 300000
                [] o.severity = "medium"   -> 150000
                [] o.severity = "low"      -> 50000
                [] OTHER                   -> 100000
        \* severity_penalty *= tenths / 10 when the condition holds
        Amplified(p, condition, tenths) ==
            IF condition THEN (p * tenths) \div 10 ELSE p
        p1 == Amplified(p0, o.type = "stairs" /\ preferences.avoid_stairs, 15)
        p2 == Amplified(p1, o.type = "construction"
                            /\ preferences.avoid_construction, 13)
        p3 == Amplified(p2, o.type = "steep_slope"
                            /\ preferences.avoid_steep_slopes, 14)
    IN IF preferences.mobility_aid = "wheelchair"
       THEN Amplified(p3, o.affects_wheelchair, 13)
       ELSE Amplified(p3, preferences.mobility_aid \in {"walker", "cane"}
                          /\ o.affects_mobility_aid, 12)

\* the largest of the penalties instead of their sum
RECURSIVE TotalObstaclePenalty_largest(_, _)
TotalObstaclePenalty_largest(obstacles, preferences) ==
    IF obstacles = <<>> THEN 0
    ELSE Max2(ObstaclePenalty(Head(obstacles), preferences),
              TotalObstaclePenalty_largest(Tail(obstacles), preferences))

RECURSIVE TotalObstaclePenalty(_, _)
TotalObstaclePenalty(obstacles, preferences) ==
    IF obstacles = <<>> THEN 0
    ELSE ObstaclePenalty(Head(obstacles), preferences)
         + TotalObstaclePenalty(Tail(obstacles), preferences)

_analyze_obstacle_avoidance(obstacles, preferences) ==
    IF obstacles = <<>> THEN One
    ELSE LET total_penalty ==
                 Min2(TotalObstaclePenalty(obstacles, preferences), 800000)
         IN Max2(0, One - total_penalty)

_analyze_width_adequacy(route_points, preferences) ==
    LET width_bonus ==
            20000 * CountOverPoints(route_points, "accessibility_features",
                                    {"wide", "wider"})
        b1 == IF preferences.prefer_wider_sidewalks
              THEN 850000 + Min2(width_bonus, 150000) ELSE 850000
        width_warnings ==
            CountOverPoints(route_points, "warnings", {"narrow", "width"})
        b2 == b1 - Min2(width_warnings * 100000, 400000)
        Adjusted(b) == IF preferences.mobility_aid = "wheelchair"
                       THEN (b * 95) \div 100 ELSE b
    IN Clamp01(Adjusted(b2))

_analyze_safety_rating(route_points) ==
    LET safety_features ==
            CountOverPoints(route_points, "accessibility_features",
                            {"safe", "well-lit", "protected", "secure"})
        safety_warnings ==
            CountOverPoints(route_points, "warnings",
                            {"unsafe", "danger", "hazard", "risk"})
        safety_bonus   == Min2(safety_features * 20000, 150000)
        safety_penalty == Min2(safety_warnings * 50000, 300000)
    IN Clamp01(800000 + safety_bonus - safety_penalty)

_analyze_lighting_adequacy(route_points) ==
    LET lighting_features ==
            CountOverPoints(route_points, "accessibility_features",
                            {"lit", "lighting"})
        lighting_bonus == Min2(lighting_features * 30000, 200000)
    IN Clamp01(750000 + lighting_bonus)

_analyze_traffic_safety(route_points) ==
    LET traffic_warnings ==
            CountOverPoints(route_points, "warnings",
                            {"traffic", "crossing", "busy road", "highway"})
        traffic_features ==
            CountOverPoints(route_points, "accessibility_features",
                            {"crossing", "signal", "protected", "pedestrian"})
        traffic_penalty == Min2(traffic_warnings * 80000, 400000)
        traffic_bonus   == Min2(traffic_features * 30000, 150000)
    IN Clamp01(850000 - traffic_penalty + traffic_bonus)

\* round(x, 3): micro -> milli.  A value exactly halfway between two
\* thousandths goes down (tie = 0) or up (tie = 1): which one the binary
\* float of the product takes is not decided by the decimal value.
Round3(x, tie) ==
    (x \div 1000)
    + (IF x % 1000 > 500 THEN 1 ELSE IF x % 1000 < 500 THEN 0 ELSE tie)

\* the seven unrounded sub-scores
SubScoreValues(route_points, preferences, obstacles) ==
    [ surface_quality     |-> _analyze_surface_quality(route_points, obstacles),
      slope_accessibility |-> _analyze_slope_accessibility(route_points, preferences),
      obstacle_avoidance  |-> _analyze_obstacle_avoidance(obstacles, preferences),
      width_adequacy      |-> _analyze_width_adequacy(route_points, preferences),
      safety_rating       |-> _analyze_safety_rating(route_points),
      lighting_adequacy   |-> _analyze_lighting_adequacy(route_points),
      traffic_safety      |-> _analyze_traffic_safety(route_points) ]

\* overall_score before rounding, in 1e-8
WeightedSum(sub) ==
    sub.surface_quality * scoring_weights.surface_quality
    + sub.slope_accessibility * scoring_weights.slope_accessibility
    + sub.obstacle_avoidance * scoring_weights.obstacle_avoidance
    + sub.width_adequacy * scoring_weights.width_adequacy
    + sub.safety_rating * scoring_weights.safety_rating
    + sub.lighting_adequacy * scoring_weights.lighting_adequacy
    + sub.traffic_safety * scoring_weights.traffic_safety

\* AccessibilityScore(...): pydantic's Field(..., ge=0, le=1) on every field
ScoreValid(score) ==
    \A f \in DOMAIN score : 0 <= score[f] /\ score[f] <= 1000

\* calculate_comprehensive_score.  raised: the AccessibilityScore
\* constructor rejected a field (ValidationError), nothing is returned.
calculate_comprehensive_score(route_points, preferences, obstacles, tie) ==
    LET Rounded(sub) ==
            [ f \in SubScores \cup {"overall_score"} |->
                IF f = "overall_score"
                THEN Round3(WeightedSum(sub) \div 100, tie)
                ELSE Round3(sub[f], tie) ]
        Validated(score) == [ raised |-> ~ScoreValid(score), score |-> score ]
    IN Validated(Rounded(SubScoreValues(route_points, preferences, obstacles)))


(***************************************************************************)
(* Data of the schemas (models/schemas.py) and of the obstacle store       *)
(* (obstacle_detector.py)                                                  *)
(***************************************************************************)
RoutePoint(lat, lon, instruction, dist, elevation, features, warnings, time) ==
    [ latitude |-> lat, longitude |-> lon, instruction |-> instruction,
      distance_from_start |-> dist, elevation |-> elevation,
      accessibility_features |-> features, warnings |-> warnings,
      segment_time |-> time ]

\* AccessibilityPreferences() with its defaults
DefaultPreferences ==
    [ avoid_stairs |-> TRUE, avoid_steep_slopes |-> TRUE,
      max_slope_percentage |-> 5, require_curb_cuts |-> TRUE,
      avoid_construction |-> TRUE, prefer_wider_sidewalks |-> TRUE,
      require_tactile_guidance |-> FALSE, mobility_aid |-> "none" ]

WheelchairPreferences ==
    [ DefaultPreferences EXCEPT !.mobility_aid = "wheelchair",
                                !.require_tactile_guidance = TRUE ]

CanePreferences ==
    [ DefaultPreferences EXCEPT !.mobility_aid = "cane",
                                !.avoid_stairs = FALSE,
                                !.avoid_construction = FALSE,
                                !.prefer_wider_sidewalks = FALSE,
                                !.max_slope_percentage = 0 ]

PreferenceSet == { DefaultPreferences, WheelchairPreferences, CanePreferences }

Obstacle(id, lat, lon, type, severity, radius, w, v, m) ==
    [ id |-> id, latitude |-> lat, longitude |-> lon, type |-> type,
      severity |-> severity, impact_radius |-> radius,
      affects_wheelchair |-> w, affects_visually_impaired |-> v,
      affects_mobility_aid |-> m ]

\* ObstacleDetector._initialize_sample_obstacles, in dict order
sample_obstacles ==
    << Obstacle("obs_001", 377749, -1224194, "construction", "high", 75, TRUE, FALSE, TRUE),
       Obstacle("obs_002", 377849, -1224094, "stairs", "critical", 25, TRUE, TRUE, TRUE),
       Obstacle("obs_003", 377650, -1224094, "broken_surface", "medium", 30, TRUE, TRUE, TRUE),
       Obstacle("obs_004", 377750, -1224150, "narrow_path", "medium", 20, TRUE, FALSE, TRUE),
       Obstacle("obs_005", 407128, -740060, "temporary_barrier", "high", 50, TRUE, TRUE, TRUE),
       Obstacle("obs_006", 340522, -1182437, "steep_slope", "high", 100, TRUE, FALSE, TRUE),
       Obstacle("obs_101", 420414, -880754, "construction", "medium", 40, TRUE, FALSE, TRUE),
       Obstacle("obs_102", 420494, -880704, "narrow_path", "low", 20, TRUE, FALSE, TRUE),
       Obstacle("obs_103", 420389, -880748, "broken_surface", "medium", 30, TRUE, TRUE, TRUE),
       Obstacle("obs_104", 420422, -880622, "construction", "high", 45, TRUE, FALSE, TRUE) >>

\* an obstacle a user reported through report_obstacle (any type and
\* severity of the enums is accepted)
reported_obstacle ==
    Obstacle("obs_011", 377751, -1224190, "broken_surface", "critical", 50,
             TRUE, FALSE, TRUE)

\* Coordinates(latitude=..., longitude=...)
Coordinates(lat, lon) == [ latitude |-> lat, longitude |-> lon ]

\* the Field(ge=-90, le=90) / Field(ge=-180, le=180) validation of
\* Coordinates; constructing one outside it raises ValidationError
CoordinatesValid(lat, lon) ==
    /\ -90 * Degree <= lat /\ lat <= 90 * Degree
    /\ -180 * Degree <= lon /\ lon <= 180 * Degree

(***************************************************************************)
(* ObstacleDetector (obstacle_detector.py)                                 *)
(***************************************************************************)
\* _generate_route_corridor: num_points + 1 points from start to end
_generate_route_corridor(start, end, num_points) ==
    [ k \in 1..(num_points + 1) |->
        Coordinates(
          start.latitude
            + ((end.latitude - start.latitude) * (k - 1)) \div num_points,
          start.longitude
            + ((end.longitude - start.longitude) * (k - 1)) \div num_points) ]

\* the inner loop of find_obstacles_along_route: some corridor point lies
\* within radius of the obstacle
NearCorridor(o, corridor, radius) ==
    \E c \in { corridor[k] : k \in DOMAIN corridor } :
        calculate_distance(c.latitude, c.longitude,
                           o.latitude, o.longitude) <= radius

SeverityRank(severity) ==
    CASE severity = "critical" -> 0
      [] severity = "high"     -> 1
      [] severity = "medium"   -> 2
      [] severity = "low"      -> 3

\* the sort key were the severity rank alone
KeyBelow_severity_only(a, b, start) ==
    SeverityRank(a.severity) < SeverityRank(b.severity)

\* the sort key (severity rank, distance from start) of obstacle a is
\* strictly below that of obstacle b
KeyBelow(a, b, start) ==
    LET da == calculate_distance(start.latitude, start.longitude,
                                 a.latitude, a.longitude)
        db == calculate_distance(start.latitude, start.longitude,
                                 b.latitude, b.longitude)
    IN \/ SeverityRank(a.severity) < SeverityRank(b.severity)
       \/ /\ SeverityRank(a.severity) = SeverityRank(b.severity)
          /\ da < db

\* one insertion of list.sort (stable: o goes behind the equal keys)
RECURSIVE InsertByKey(_, _, _)
InsertByKey(sorted, o, start) ==
    IF sorted = <<>> THEN << o >>
    ELSE IF KeyBelow(o, Head(sorted), start) THEN << o >> \o sorted
    ELSE << Head(sorted) >> \o InsertByKey(Tail(sorted), o, start)

RECURSIVE SortByKey(_, _, _)
SortByKey(found, sorted, start) ==
    IF found = <<>> THEN sorted
    ELSE SortByKey(Tail(found), InsertByKey(sorted, Head(found), start), start)

\* the obstacles of db near the corridor, in db order
RECURSIVE ObstaclesNear(_, _, _)
ObstaclesNear(db, corridor, radius) ==
    IF db = <<>> THEN <<>>
    ELSE (IF NearCorridor(Head(db), corridor, radius)
          THEN << Head(db) >> ELSE <<>>)
         \o ObstaclesNear(Tail(db), corridor, radius)

\* ObstacleDetector.find_obstacles_along_route
find_obstacles_along_route(db, start, end, radius) ==
    SortByKey(ObstaclesNear(db, _generate_route_corridor(start, end, 10), radius),
              <<>>, start)

(***************************************************************************)
(* AdvancedRoutingEngine: the internal lattice (routing_engine.py).        *)
(* Node "node_k" is the integer k, segment "segment_k" the integer k.      *)
(***************************************************************************)
\* RouteRequest
RouteRequest(start, end, level, preferences) ==
    [ start |-> start, end |-> end, accessibility_level |-> level,
      preferences |-> preferences ]

\* grid_size of _build_road_network
grid_size == 10

\* the 0.01 degree padding of the bounding box
BoxPadding == Degree \div 100

NodeIds == 1..((grid_size + 1) * (grid_size + 1))

\* row i and column j (0..grid_size) of node k, numbered row by row
NodeRow(k) == (k - 1) \div (grid_size + 1)

NodeCol(k) == (k - 1) % (grid_size + 1)

NodeAt(i, j) == i * (grid_size + 1) + j + 1

\* self.nodes after _build_road_network(start, end)
_build_road_network_nodes(start, end) ==
    LET min_lat == Min2(start.latitude, end.latitude) - BoxPadding
        max_lat == Max2(start.latitude, end.latitude) + BoxPadding
        min_lon == Min2(start.longitude, end.longitude) - BoxPadding
        max_lon == Max2(start.longitude, end.longitude) + BoxPadding
    IN [ k \in NodeIds |->
           [ lat |-> min_lat + (NodeRow(k) * (max_lat - min_lat)) \div grid_size,
             lon |-> min_lon + (NodeCol(k) * (max_lon - min_lon)) \div grid_size ] ]

\* Segments are created node by node, row by row: the right segment and
\* its reverse, then the down segment and its reverse.  SegmentBase is the
\* number of segments created before the visit of node (i, j).
SegmentsPerRow == 4 * grid_size + 2

NumSegments == grid_size * SegmentsPerRow + 2 * grid_size

SegmentBase(i, j) ==
    i * SegmentsPerRow + (IF i < grid_size THEN 4 * j ELSE 2 * j)

RightSeg(i, j) == SegmentBase(i, j) + 1

RightRev(i, j) == SegmentBase(i, j) + 2

DownSeg(i, j) == SegmentBase(i, j) + (IF j < grid_size THEN 3 ELSE 1)

DownRev(i, j) == DownSeg(i, j) + 1

\* node.connections of node k, in the order the segments were appended:
\* the reverse segment from the node above, the reverse segment from the
\* node on the left, then its own right and down segments
Connections(k) ==
    LET i == NodeRow(k)
        j == NodeCol(k)
    IN (IF i > 0 THEN << DownRev(i - 1, j) >> ELSE <<>>)
       \o (IF j > 0 THEN << RightRev(i, j - 1) >> ELSE <<>>)
       \o (IF j + 1 <= grid_size THEN << RightSeg(i, j) >> ELSE <<>>)
       \o (IF i + 1 <= grid_size THEN << DownSeg(i, j) >> ELSE <<>>)

\* the <<from_node, to_node>> of segment n
SegmentEnds(n) ==
    LET \* segment kind t created at the visit of node (i, j)
        Ends(i, j, t) ==
            CASE t = 0 -> << NodeAt(i, j), NodeAt(i, j + 1) >>
              [] t = 1 -> << NodeAt(i, j + 1), NodeAt(i, j) >>
              [] t = 2 -> << NodeAt(i, j), NodeAt(i + 1, j) >>
              [] t = 3 -> << NodeAt(i + 1, j), NodeAt(i, j) >>
        \* the o-th segment (from 0) of the visits of row i
        InRow(i, o) ==
            Ends(i,
                 IF i < grid_size
                 THEN (IF o < 4 * grid_size THEN o \div 4 ELSE grid_size)
                 ELSE o \div 2,
                 IF i < grid_size
                 THEN (IF o < 4 * grid_size THEN o % 4
                       ELSE 2 + (o - 4 * grid_size))
                 ELSE o % 2)
        Row(i) == InRow(i, (n - 1) - i * SegmentsPerRow)
    IN Row(Min2((n - 1) \div SegmentsPerRow, grid_size))

\* RoadSegment._calculate_distance
SegmentDistance(nodes, from, to) ==
    calculate_distance(nodes[from].lat, nodes[from].lon,
                       nodes[to].lat, nodes[to].lon)

\* _calculate_obstacle_penalty, in micro
_calculate_obstacle_penalty(obstacle, preferences) ==
    LET base == CASE obstacle.severity = "critical" -> 800000
                  [] obstacle.severity = "high"     -> 600000
                  [] obstacle.severity = "medium"   -> 400000
                  [] obstacle.severity = "low"      -> 200000
                  [] OTHER                          -> 200000
        p1 == IF preferences.mobility_aid = "wheelchair"
                 /\ obstacle.affects_wheelchair
              THEN (base * 15) \div 10
              ELSE IF preferences.mobility_aid \in {"walker", "cane"}
                      /\ obstacle.affects_mobility_aid
              THEN (base * 13) \div 10
              ELSE base
        p2 == IF preferences.require_tactile_guidance
                 /\ obstacle.affects_visually_impaired
              THEN (p1 * 14) \div 10 ELSE p1
    IN Min2(p2, 900000)

\* the loop of _score_segment_accessibility over the obstacle list: the
\* penalties of the obstacles whose impact radius holds the point
RECURSIVE PenaltiesAt(_, _, _, _)
PenaltiesAt(lat, lon, obstacles, preferences) ==
    IF obstacles = <<>> THEN 0
    ELSE LET o == Head(obstacles)
         IN (IF calculate_distance(lat, lon, o.latitude, o.longitude)
                  < o.impact_radius
             THEN _calculate_obstacle_penalty(o, preferences) ELSE 0)
            + PenaltiesAt(lat, lon, Tail(obstacles), preferences)

\* _score_segment_accessibility for a segment leaving from_node: the
\* segment is a default RoadSegment (paved, width 1.5, slope 0, curb cuts,
\* no tactile guidance) and only from_node is measured against obstacles
_score_segment_accessibility(nodes, from, preferences, obstacles) ==
    LET s1 == One - PenaltiesAt(nodes[from].lat, nodes[from].lon,
                                obstacles, preferences)
    IN Max2(100000,
            s1 - (IF preferences.require_tactile_guidance THEN 300000 ELSE 0))

\* the obstacle list _integrate_accessibility_data gathers: for the nodes
\* lo..hi in turn, the obstacles within 100 m of each
RECURSIVE GatherObstacles(_, _, _, _)
GatherObstacles(nodes, lo, hi, db) ==
    IF lo = hi
    THEN find_obstacles_along_route(db,
             Coordinates(nodes[lo].lat, nodes[lo].lon),
             Coordinates(nodes[lo].lat, nodes[lo].lon), 100)
    ELSE LET mid == (lo + hi) \div 2
         IN GatherObstacles(nodes, lo, mid, db)
            \o GatherObstacles(nodes, mid + 1, hi, db)

\* Coordinates(latitude=node.lat, longitude=node.lon) is accepted for
\* every node (otherwise _integrate_accessibility_data raises)
NodesValid(nodes) ==
    \A k \in DOMAIN nodes : CoordinatesValid(nodes[k].lat, nodes[k].lon)

\* self.segments after _build_road_network and _integrate_accessibility_data
_integrate_accessibility_data(nodes, preferences, db) ==
    LET obstacles == GatherObstacles(nodes, 1, Len(nodes), db)
        from_score == [ k \in NodeIds |->
                          _score_segment_accessibility(nodes, k, preferences,
                                                       obstacles) ]
        Segment(ends) ==
            [ from_node |-> ends[1], to_node |-> ends[2],
              distance |-> SegmentDistance(nodes, ends[1], ends[2]),
              accessibility_score |-> from_score[ends[1]] ]
    IN [ n \in 1..NumSegments |-> Segment(SegmentEnds(n)) ]

\* <<distance, k>> of the nearest of nodes lo..hi; the strict `<` of the
\* scan keeps the earliest of equally near nodes
RECURSIVE NearestScan(_, _, _, _, _)
NearestScan(nodes, lat, lon, lo, hi) ==
    IF lo = hi
    THEN << calculate_distance(lat, lon, nodes[lo].lat, nodes[lo].lon), lo >>
    ELSE LET mid == (lo + hi) \div 2
             left == NearestScan(nodes, lat, lon, lo, mid)
             right == NearestScan(nodes, lat, lon, mid + 1, hi)
         IN IF right[1] < left[1] THEN right ELSE left

\* the 1 km snapping limit of _find_nearest_node
SnapLimit == 1000

\* the nearest node, were the limit a tenth of a kilometre
_find_nearest_node_within_100(nodes, lat, lon) ==
    IF DOMAIN nodes = {} THEN <<>>
    ELSE LET Snapped(nearest) ==
                 IF nearest[1] < 100 THEN << nearest[2] >> ELSE <<>>
         IN Snapped(NearestScan(nodes, lat, lon, 1, Len(nodes)))

\* _find_nearest_node: <<k>> for node k, <<>> for None
_find_nearest_node(nodes, lat, lon) ==
    IF DOMAIN nodes = {} THEN <<>>
    ELSE LET Snapped(nearest) ==
                 IF nearest[1] < SnapLimit THEN << nearest[2] >> ELSE <<>>
         IN Snapped(NearestScan(nodes, lat, lon, 1, Len(nodes)))

\* ten times the straight-line distance: an estimate above the cost left
_heuristic_tenfold(nodes, a, b) ==
    10 * calculate_distance(nodes[a].lat, nodes[a].lon, nodes[b].lat, nodes[b].lon)

\* _heuristic
_heuristic(nodes, a, b) ==
    calculate_distance(nodes[a].lat, nodes[a].lon, nodes[b].lat, nodes[b].lon)

\* the decimal digits of n (the "k" of "node_k")
RECURSIVE Digits(_)
Digits(n) == IF n < 10 THEN << n >> ELSE Append(Digits(n \div 10), n % 10)

\* a < b as Python compares the strings
RECURSIVE StrBelow(_, _)
StrBelow(a, b) ==
    IF a = <<>> THEN b # <<>>
    ELSE IF b = <<>> THEN FALSE
    ELSE IF Head(a) # Head(b) THEN Head(a) < Head(b)
    ELSE StrBelow(Tail(a), Tail(b))

\* (f, node_id) tuple e is below tuple o in the heap
EntryBelow(e, o) ==
    \/ e[1] < o[1]
    \/ e[1] = o[1] /\ StrBelow(Digits(e[2]), Digits(o[2]))

\* the path rebuilt from came_from, ending at node k
RECURSIVE ReconstructPath(_, _)
ReconstructPath(came_from, k) ==
    IF k \in DOMAIN came_from
    THEN Append(ReconstructPath(came_from, came_from[k]), k)
    ELSE << k >>

\* the `for segment in current_node.connections` loop, from connection c on
RECURSIVE Relax(_, _, _, _, _, _)
Relax(s, nodes, segments, current, end_node, c) ==
    LET Visit(neighbor, tentative_g_score) ==
            IF \/ neighbor \notin DOMAIN s.g_score
               \/ tentative_g_score < s.g_score[neighbor]
            THEN [ s EXCEPT
                     !.came_from = (neighbor :> current) @@ @,
                     !.g_score   = (neighbor :> tentative_g_score) @@ @,
                     !.open_set  = @ \cup
                        { << tentative_g_score
                               + _heuristic(nodes, neighbor, end_node),
                             neighbor >> } ]
            ELSE s
        \* accessibility_cost = (1.0 - segment.accessibility_score) * 1000
        Along(segment) ==
            Visit(segment.to_node,
                  s.g_score[current] + segment.distance
                  + (One - segment.accessibility_score) \div 1000)
        From(connections) ==
            IF c > Len(connections) THEN s
            ELSE Relax(Along(segments[connections[c]]), nodes, segments,
                       current, end_node, c + 1)
    IN From(Connections(current))

\* one turn of the `while open_set` loop; a finished search stays as it is
AStarStep(s, nodes, segments, end_node) ==
    IF s.status # "running" THEN s
    ELSE IF s.open_set = {} THEN [ s EXCEPT !.status = "no_path" ]
    ELSE LET Expand(current, popped) ==
                 IF current = end_node
                 THEN [ popped EXCEPT
                          !.status = "found",
                          !.path = ReconstructPath(s.came_from, current) ]
                 ELSE Relax(popped, nodes, segments, current, end_node, 1)
             Pop(e) ==
                 Expand(e[2], [ s EXCEPT !.open_set = @ \ { e }, !.pops = @ + 1 ])
         IN Pop(CHOOSE x \in s.open_set :
                    \A o \in s.open_set : x = o \/ EntryBelow(x, o))

\* most turns of the A* loop followed in one search
MaxPops == 512

\* n turns of the loop
RECURSIVE AStarRun(_, _, _, _, _)
AStarRun(s, nodes, segments, end_node, n) ==
    IF n <= 1 THEN AStarStep(s, nodes, segments, end_node)
    ELSE LET half == AStarRun(s, nodes, segments, end_node, n \div 2)
         IN IF half.status = "running"
            THEN AStarRun(half, nodes, segments, end_node, n - (n \div 2))
            ELSE half

\* _find_accessible_path: <<path>> or <<>> for None
_find_accessible_path(nodes, segments, request) ==
    LET Found(s) == IF s.status = "found" THEN << s.path >> ELSE <<>>
        Search(start_node, end_node) ==
            IF start_node = <<>> \/ end_node = <<>> THEN <<>>
            ELSE Found(AStarRun([ status |-> "running",
                                  open_set |-> { << 0, start_node[1] >> },
                                  came_from |-> << >>,
                                  g_score |-> (start_node[1] :> 0),
                                  path |-> << >>,
                                  pops |-> 0 ],
                                nodes, segments, end_node[1], MaxPops))
    IN Search(_find_nearest_node(nodes, request.start.latitude,
                                 request.start.longitude),
              _find_nearest_node(nodes, request.end.latitude,
                                 request.end.longitude))

\* _calculate_segment_time(self, distance): int(distance / (3.5 * 1000 / 3600))
_calculate_segment_time(distance) ==
    IF distance = 0 THEN 0 ELSE (distance * 36) \div 35

\* a call of self._calculate_segment_time with the positional arguments
\* args.  The method takes one
\* argument besides self: a call with any other number of arguments raises
\* TypeError.
Call_calculate_segment_time(args) ==
    IF Len(args) = 1
    THEN [ raised |-> FALSE, value |-> _calculate_segment_time(args[1]) ]
    ELSE [ raised |-> TRUE ]

\* _calculate_bearing between two nodes one lattice step apart, in degrees
\* (north 0, east 90, south 180, west 270)
_calculate_bearing(nodes, a, b) ==
    IF nodes[b].lon > nodes[a].lon THEN 90
    ELSE IF nodes[b].lon < nodes[a].lon THEN 270
    ELSE IF nodes[b].lat < nodes[a].lat THEN 180
    ELSE 0

\* _generate_instruction (index counts from 0)
_generate_instruction(index, total_nodes, path, nodes) ==
    IF index = 0 THEN "Start your accessible journey"
    ELSE IF index = total_nodes - 1 THEN "You have arrived at your destination"
    ELSE LET bearing1 == _calculate_bearing(nodes, path[index], path[index + 1])
             bearing2 == _calculate_bearing(nodes, path[index + 1], path[index + 2])
             Turn(angle_diff) ==
                 IF angle_diff < 45 \/ angle_diff > 315 THEN "Continue straight"
                 ELSE IF 45 <= angle_diff /\ angle_diff < 135 THEN "Turn right"
                 ELSE IF 225 < angle_diff /\ angle_diff <= 315 THEN "Turn left"
                 ELSE "Continue straight"
         IN Turn((bearing2 - bearing1 + 360) % 360)

\* _path_to_route_points, for the first n nodes of the path
RECURSIVE PathPoints(_, _, _)
PathPoints(path, nodes, n) ==
    IF n = 0 THEN <<>>
    ELSE LET Extended(before, node, segment_distance) ==
                 Append(before,
                     RoutePoint(node.lat, node.lon,
                         _generate_instruction(n - 1, Len(path), path, nodes),
                         IF n > 1
                         THEN before[n - 1].distance_from_start + segment_distance
                         ELSE 0,
                         << 0 >>,
                         << "Accessible path", "Real road network",
                            "Safe intersection" >>,
                         << >>,
                         << Call_calculate_segment_time(
                                << segment_distance >>).value >>))
         IN Extended(PathPoints(path, nodes, n - 1), nodes[path[n]],
                     IF n > 1
                     THEN calculate_distance(nodes[path[n - 1]].lat,
                                             nodes[path[n - 1]].lon,
                                             nodes[path[n]].lat,
                                             nodes[path[n]].lon)
                     ELSE 0)

_path_to_route_points(path, nodes) == PathPoints(path, nodes, Len(path))

\* the obstacle-count warning of _calculate_route_metrics
MetricsWarnings(obstacles) ==
    IF obstacles # <<>> THEN << "accessibility obstacles detected" >> ELSE << >>

\* Route(...), with the fields of the response the properties speak about
Route(route_id, points, accessibility_score, warnings, routing_engine, obstacles) ==
    [ route_id |-> route_id, points |-> points,
      accessibility_score |-> accessibility_score, warnings |-> warnings,
      routing_engine |-> routing_engine, obstacles |-> obstacles ]

\* what a stage hands back: a Route, None, or an exception
Returned(route) == [ kind |-> "route", route |-> route ]

ReturnedNone == [ kind |-> "none" ]

Raised(error) == [ kind |-> "raised", error |-> error ]

\* lines 145-179 of calculate_route: the path is converted, measured and
\* wrapped into the "intelligent_road_network" Route
LatticeRoute(path, nodes, request, db, route_id, tie) ==
    LET Built(route_points, obstacles, scored) ==
            IF scored.raised THEN Raised("ValidationError")
            ELSE Returned(Route(route_id, route_points, scored.score,
                                MetricsWarnings(obstacles),
                                "intelligent_road_network", obstacles))
        Scored(route_points, obstacles) ==
            Built(route_points, obstacles,
                  calculate_comprehensive_score(route_points,
                      request.preferences, obstacles, tie))
        Measured(route_points) ==
            Scored(route_points,
                   find_obstacles_along_route(db,
                       Coordinates(route_points[1].latitude,
                                   route_points[1].longitude),
                       Coordinates(route_points[Len(route_points)].latitude,
                                   route_points[Len(route_points)].longitude),
                       200))
    IN Measured(_path_to_route_points(path, nodes))

(***************************************************************************)
(* AdvancedRoutingEngine: the grid-aligned fallback                        *)
(***************************************************************************)
Waypoint(lat, lon, instruction, type) ==
    [ lat |-> lat, lon |-> lon, instruction |-> instruction, type |-> type ]

\* an order of the legs that ignores the requested accessibility level
LegOrder_vertical_first(request) == << "vertical", "horizontal" >>

\* the order of the two legs, from the requested accessibility level
LegOrder(request) ==
    IF request.accessibility_level = "high" THEN << "vertical", "horizontal" >>
    ELSE IF request.accessibility_level = "low" THEN << "horizontal", "vertical" >>
    ELSE IF Abs(request.end.latitude - request.start.latitude)
              >= Abs(request.end.longitude - request.start.longitude)
         THEN << "vertical", "horizontal" >>
         ELSE << "horizontal", "vertical" >>

\* one turn of `for step in order`: both `if`s of the loop body
LegStep(waypoints, step, request) ==
    LET Vertical(w1) ==
            IF step = "vertical" /\ request.end.latitude # request.start.latitude
            THEN Append(w1,
                   Waypoint(request.end.latitude, w1[Len(w1)].lon,
                            "Proceed along vertical road to next intersection",
                            "turn"))
            ELSE w1
    IN Vertical(IF step = "horizontal"
                   /\ request.end.longitude # request.start.longitude
                THEN Append(waypoints,
                       Waypoint(waypoints[Len(waypoints)].lat,
                                request.end.longitude,
                                "Proceed along horizontal road to next intersection",
                                "turn"))
                ELSE waypoints)

\* the waypoints list of _generate_grid_aligned_points
GridWaypoints(request) ==
    LET w0 == << Waypoint(request.start.latitude, request.start.longitude,
                          "Start your journey on grid-aligned route", "start") >>
        Legs(order) == LegStep(LegStep(w0, order[1], request), order[2], request)
    IN Append(Legs(LegOrder(request)),
              Waypoint(request.end.latitude, request.end.longitude,
                       "You have arrived at your destination", "end"))

\* the conversion loop of _generate_grid_aligned_points over the first n
\* waypoints: the points built, or raised when a segment-time call raised
RECURSIVE GridPoints(_, _, _)
GridPoints(waypoints, request, n) ==
    IF n = 0 THEN [ raised |-> FALSE, points |-> << >> ]
    ELSE LET before == GridPoints(waypoints, request, n - 1)
             wp == waypoints[n]
             features ==
                 << "Follows grid roads", "Accessible intersections" >>
                 \o (IF request.preferences.avoid_stairs
                     THEN << "Avoids stairs" >> ELSE << >>)
             Timed(cumulative_distance, segment_time) ==
                 IF segment_time.raised
                 THEN [ raised |-> TRUE, points |-> before.points ]
                 ELSE [ raised |-> FALSE,
                        points |-> Append(before.points,
                           RoutePoint(wp.lat, wp.lon, wp.instruction,
                                      cumulative_distance, << 10 >>,
                                      features, << >>,
                                      << segment_time.value >>)) ]
             \* segment_time: self._calculate_segment_time(segment_distance,
             \*                                            request.preferences)
             Converted(segment_distance) ==
                 Timed(IF n > 1
                       THEN before.points[n - 1].distance_from_start
                            + segment_distance
                       ELSE 0,
                       IF n > 1
                       THEN Call_calculate_segment_time(
                                << segment_distance, request.preferences >>)
                       ELSE [ raised |-> FALSE, value |-> 0 ])
         IN IF before.raised THEN before
            ELSE Converted(IF n > 1
                           THEN calculate_distance(waypoints[n - 1].lat,
                                                   waypoints[n - 1].lon,
                                                   wp.lat, wp.lon)
                           ELSE 0)

\* _generate_grid_aligned_points
_generate_grid_aligned_points(request) ==
    LET Converted(waypoints) == GridPoints(waypoints, request, Len(waypoints))
    IN Converted(GridWaypoints(request))

\* _generate_route_warnings
_generate_route_warnings(accessibility_score, obstacles) ==
    (IF accessibility_score.overall_score < 600
     THEN << "This route has significant accessibility challenges" >> ELSE << >>)
    \o (IF Len(obstacles) > 2
        THEN << "Multiple obstacles detected along route" >> ELSE << >>)
    \o (IF \E k \in DOMAIN obstacles : obstacles[k].severity = "critical"
        THEN << "Critical accessibility barriers detected" >> ELSE << >>)
    \o (IF accessibility_score.slope_accessibility < 500
        THEN << "Route contains steep slopes" >> ELSE << >>)
    \o (IF accessibility_score.surface_quality < 600
        THEN << "Poor surface conditions detected" >> ELSE << >>)

\* _calculate_road_following_route
_calculate_road_following_route(request, db, route_id, tie) ==
    LET Built(obstacles, route_points, scored) ==
            IF scored.raised THEN Raised("ValidationError")
            ELSE Returned(Route(route_id, route_points, scored.score,
                                _generate_route_warnings(scored.score, obstacles),
                                "grid_aligned_fallback", obstacles))
        Generated(obstacles, generated) ==
            IF generated.raised THEN Raised("TypeError")
            ELSE Built(obstacles, generated.points,
                       calculate_comprehensive_score(generated.points,
                           request.preferences, obstacles, tie))
    IN Generated(find_obstacles_along_route(db, request.start, request.end, 200),
                 _generate_grid_aligned_points(request))

\* _calculate_fallback_route
_calculate_fallback_route(request, db, route_id, tie) ==
    _calculate_road_following_route(request, db, route_id, tie)

(***************************************************************************)
(* GridBasedRoutingEngine (grid_routing_engine.py).  Node "node_i_j" is    *)
(* the pair <<i, j>>.                                                      *)
(***************************************************************************)
\* self.grid_spacing = 0.001 degrees
grid_spacing == Degree \div 1000

\* math.ceil(a / b) for a >= 0, b > 0
CeilDiv(a, b) == (a + b - 1) \div b

\* the half_size calculate_route derives from the request
\* (self.grid_size // 2 = 10, capped at 50)
GridHalfSize(request) ==
    LET lat_diff == Abs(request.end.latitude - request.start.latitude)
        lon_diff == Abs(request.end.longitude - request.start.longitude)
        half_size_lat == CeilDiv(lat_diff, 2 * grid_spacing) + 5
        half_size_lon == CeilDiv(lon_diff, 2 * grid_spacing) + 5
    IN Min2(Max2(Max2(half_size_lat, half_size_lon), 21 \div 2), 50)

\* position of grid node <<i, j>> of _create_grid_network
GridNodeAt(center_lat, center_lon, ij) ==
    [ latitude  |-> center_lat + ij[1] * grid_spacing,
      longitude |-> center_lon + ij[2] * grid_spacing ]

\* the grid node scanned n-th (from 0) by _find_nearest_grid_node: i outer,
\* j inner, as _create_grid_network inserted them
GridScanNode(half_size, n) ==
    << (n \div (2 * half_size + 1)) - half_size,
       (n % (2 * half_size + 1)) - half_size >>

\* <<distance, n>> of the nearest node among those scanned lo-th..hi-th; the
\* strict `<` of the scan keeps the earliest of equally near nodes
RECURSIVE GridNearest(_, _, _, _, _, _, _)
GridNearest(center_lat, center_lon, half_size, lat, lon, lo, hi) ==
    IF lo = hi
    THEN LET node == GridNodeAt(center_lat, center_lon,
                                GridScanNode(half_size, lo))
         IN << calculate_distance(lat, lon, node.latitude, node.longitude), lo >>
    ELSE LET mid == (lo + hi) \div 2
             left == GridNearest(center_lat, center_lon, half_size, lat, lon,
                                 lo, mid)
             right == GridNearest(center_lat, center_lon, half_size, lat, lon,
                                  mid + 1, hi)
         IN IF right[1] < left[1] THEN right ELSE left

\* _find_nearest_grid_node: <<ij>>, or <<>> for None when the nearest node is
\* 1000 m away or more
_find_nearest_grid_node(center_lat, center_lon, half_size, lat, lon) ==
    LET side == 2 * half_size + 1
        Snapped(best) ==
            IF best[1] < 1000 THEN << GridScanNode(half_size, best[2]) >>
            ELSE << >>
    IN Snapped(GridNearest(center_lat, center_lon, half_size, lat, lon,
                           0, side * side - 1))

\* the nodes from a (exclusive) to b along row/column, one step at a time
RECURSIVE GridWalk(_, _)
GridWalk(a, b) ==
    IF a = b THEN << >>
    ELSE LET next == << a[1] + (IF b[1] > a[1] THEN 1 ELSE IF b[1] < a[1] THEN -1 ELSE 0),
                        a[2] + (IF b[2] > a[2] THEN 1 ELSE IF b[2] < a[2] THEN -1 ELSE 0) >>
         IN << next >> \o GridWalk(next, b)

\* _calculate_manhattan_path: the longer leg first (horizontal on a tie)
_calculate_manhattan_path(start_node, end_node) ==
    LET lat_distance == Abs(end_node[1] - start_node[1])
        lon_distance == Abs(end_node[2] - start_node[2])
        corner == IF lon_distance >= lat_distance
                  THEN << start_node[1], end_node[2] >>
                  ELSE << end_node[1], start_node[2] >>
    IN << start_node >> \o GridWalk(start_node, corner) \o GridWalk(corner, end_node)

\* _generate_grid_instruction (index counts from 0)
_generate_grid_instruction(index, total_nodes, path) ==
    IF index = 0 THEN "Start your journey on the grid road network"
    ELSE IF index = total_nodes - 1 THEN "You have arrived at your destination"
    ELSE LET prev == path[index]
             curr == path[index + 1]
             next == path[index + 2]
             direction == IF curr[1] = prev[1]
                          THEN (IF curr[2] > prev[2] THEN "east" ELSE "west")
                          ELSE (IF curr[1] > prev[1] THEN "north" ELSE "south")
             current_horizontal == curr[1] = prev[1]
             next_horizontal == next[1] = curr[1]
         IN IF current_horizontal # next_horizontal
            THEN IF next_horizontal
                 THEN (IF next[2] > curr[2]
                       THEN "At intersection, turn right and continue east"
                       ELSE "At intersection, turn left and continue west")
                 ELSE (IF next[1] > curr[1]
                       THEN "At intersection, turn and continue north"
                       ELSE "At intersection, turn and continue south")
            ELSE IF direction = "east" THEN "Continue east on grid road"
            ELSE IF direction = "west" THEN "Continue west on grid road"
            ELSE IF direction = "north" THEN "Continue north on grid road"
            ELSE "Continue south on grid road"

\* GridBasedRoutingEngine._calculate_segment_time(self, distance)
Grid_calculate_segment_time(distance) == (distance * 3600) \div 4000

\* GridBasedRoutingEngine._path_to_route_points, for the first n nodes
RECURSIVE GridPathPoints(_, _, _, _)
GridPathPoints(path, center_lat, center_lon, n) ==
    IF n = 0 THEN << >>
    ELSE LET accessibility_features ==
                 << "Grid-aligned route", "Clear intersections" >>
                 \o (IF n > 1 /\ n < Len(path)
                     THEN << "Intersection with good visibility" >> ELSE << >>)
             Extended(before, node, segment_distance) ==
                 Append(before,
                     RoutePoint(node.latitude, node.longitude,
                         _generate_grid_instruction(n - 1, Len(path), path),
                         IF n > 1
                         THEN before[n - 1].distance_from_start + segment_distance
                         ELSE 0,
                         << 10 >>, accessibility_features, << >>,
                         << Grid_calculate_segment_time(segment_distance) >>))
             Between(prev_node, node) ==
                 Extended(GridPathPoints(path, center_lat, center_lon, n - 1),
                          node,
                          IF n > 1
                          THEN calculate_distance(prev_node.latitude,
                                                  prev_node.longitude,
                                                  node.latitude, node.longitude)
                          ELSE 0)
         IN Between(GridNodeAt(center_lat, center_lon, path[Max2(n - 1, 1)]),
                    GridNodeAt(center_lat, center_lon, path[n]))

\* GridBasedRoutingEngine._generate_route_warnings
Grid_generate_route_warnings(accessibility_score, obstacles) ==
    (IF accessibility_score.overall_score < 600
     THEN << "This route has accessibility challenges" >> ELSE << >>)
    \o (IF Len(obstacles) > 2
        THEN << "Multiple obstacles detected along route" >> ELSE << >>)
    \o (IF \E k \in DOMAIN obstacles : obstacles[k].severity = "critical"
        THEN << "Critical accessibility barriers detected" >> ELSE << >>)

\* the fixed AccessibilityScore of the engines' simple fallback routes
FixedFallbackScore ==
    [ overall_score |-> 800, surface_quality |-> 800,
      slope_accessibility |-> 900, obstacle_avoidance |-> 700,
      width_adequacy |-> 900, safety_rating |-> 800,
      lighting_adequacy |-> 750, traffic_safety |-> 850 ]

\* GridBasedRoutingEngine._calculate_fallback_route: start and end only
Grid_calculate_fallback_route(request, route_id) ==
    LET Direct(total_distance) ==
            Returned(Route(route_id,
              << RoutePoint(request.start.latitude, request.start.longitude,
                            "Start your journey", 0, << 0 >>,
                            << "Starting point" >>, << >>, << 0 >>),
                 RoutePoint(request.end.latitude, request.end.longitude,
                            "You have arrived at your destination",
                            total_distance, << 0 >>,
                            << "Destination reached" >>, << >>,
                            << (total_distance * 3600) \div 4000 >>) >>,
              FixedFallbackScore,
              << "Using simplified routing (grid network unavailable)" >>,
              "grid_network_fallback", << >>))
    IN Direct(calculate_distance(request.start.latitude, request.start.longitude,
                                 request.end.latitude, request.end.longitude))

\* GridBasedRoutingEngine.calculate_route.  fallback_id is the uuid drawn
\* by _calculate_fallback_route when the snapping fails.
Grid_calculate_route(request, db, route_id, fallback_id, tie) ==
    LET center_lat == (request.start.latitude + request.end.latitude) \div 2
        center_lon == (request.start.longitude + request.end.longitude) \div 2
        Built(route_points, obstacles, scored) ==
            Returned(Route(route_id, route_points, scored.score,
                Grid_generate_route_warnings(scored.score, obstacles),
                "grid_network", obstacles))
        Measured(route_points, obstacles) ==
            Built(route_points, obstacles,
                  calculate_comprehensive_score(route_points,
                      request.preferences, obstacles, tie))
        Along(path) ==
            Measured(GridPathPoints(path, center_lat, center_lon, Len(path)),
                     find_obstacles_along_route(db, request.start,
                                                request.end, 200))
        Between(start_node, end_node) ==
            IF start_node = << >> \/ end_node = << >>
            THEN Grid_calculate_fallback_route(request, fallback_id)
            ELSE Along(_calculate_manhattan_path(start_node[1], end_node[1]))
        Within(half_size) ==
            Between(_find_nearest_grid_node(center_lat, center_lon, half_size,
                        request.start.latitude, request.start.longitude),
                    _find_nearest_grid_node(center_lat, center_lon, half_size,
                        request.end.latitude, request.end.longitude))
    IN Within(GridHalfSize(request))

(***************************************************************************)
(* The directions providers.  A provider's answer is an input of the       *)
(* model: it fails, answers without a route, or answers with a geometry of *)
(* n coordinates, here spread evenly from the start to the end of the      *)
(* request (no legs, so the engines fall back on their own instructions).  *)
(***************************************************************************)
ProviderFailed == [ kind |-> "failed" ]

ProviderNoRoutes == [ kind |-> "no_routes" ]

ProviderGeometry(request, n) ==
    [ kind |-> "ok",
      coordinates |->
        [ k \in 1..n |->
            IF n = 1 THEN request.start
            ELSE Coordinates(
                   request.start.latitude
                     + ((k - 1) * (request.end.latitude - request.start.latitude))
                       \div (n - 1),
                   request.start.longitude
                     + ((k - 1) * (request.end.longitude - request.start.longitude))
                       \div (n - 1)) ] ]

\* seconds for `distance` metres at 4 km/h times the modifier of the
\* mobility aid: int(distance / 1000 / (4.0 * modifier) * 3600)
AidSegmentTime(distance, preferences) ==
    IF preferences.mobility_aid = "wheelchair" THEN (distance * 9) \div 8
    ELSE IF preferences.mobility_aid = "walker" THEN (distance * 3) \div 2
    ELSE (distance * 9) \div 10

(***************************************************************************)
(* MapboxRoutingEngine (mapbox_routing_engine.py)                          *)
(***************************************************************************)
\* _generate_instruction_from_steps with no steps (index counts from 0)
_generate_instruction_from_steps(index, total_points) ==
    IF index = 0 THEN "Start your accessible journey"
    ELSE IF index = total_points - 1 THEN "You have arrived at your destination"
    ELSE IF index < total_points \div 3
         THEN "Continue straight on accessible pathway"
    ELSE IF index < (2 * total_points) \div 3 THEN "Continue toward destination"
    ELSE "Approaching destination"

\* _generate_point_features
_generate_point_features(preferences) ==
    (IF preferences.require_curb_cuts THEN << "Curb cuts available" >> ELSE << >>)
    \o (IF preferences.prefer_wider_sidewalks THEN << "Wide sidewalk" >> ELSE << >>)
    \o (IF preferences.avoid_stairs THEN << "No stairs" >> ELSE << >>)

\* _convert_mapbox_route, for the first n coordinates
RECURSIVE MapboxPoints(_, _, _)
MapboxPoints(coordinates, request, n) ==
    IF n = 0 THEN << >>
    ELSE LET before == MapboxPoints(coordinates, request, n - 1)
             \* segment_time is computed from the cumulative distance
             Extended(cumulative_distance) ==
                 Append(before,
                     RoutePoint(coordinates[n].latitude, coordinates[n].longitude,
                         _generate_instruction_from_steps(n - 1, Len(coordinates)),
                         cumulative_distance, << 0 >>,
                         _generate_point_features(request.preferences), << >>,
                         << AidSegmentTime(cumulative_distance,
                                           request.preferences) >>))
         IN Extended(IF n > 1
                     THEN before[n - 1].distance_from_start
                          + Mapbox_calculate_distance(
                                coordinates[n - 1].latitude,
                                coordinates[n - 1].longitude,
                                coordinates[n].latitude, coordinates[n].longitude)
                     ELSE 0)

_convert_mapbox_route(coordinates, request) ==
    MapboxPoints(coordinates, request, Len(coordinates))

\* MapboxRoutingEngine._generate_route_warnings
Mapbox_generate_route_warnings(accessibility_score, obstacles) ==
    (IF accessibility_score.overall_score < 600
     THEN << "Route has accessibility challenges" >> ELSE << >>)
    \o (IF Len(obstacles) > 2 THEN << "Multiple obstacles detected" >> ELSE << >>)
    \o (IF \E k \in DOMAIN obstacles : obstacles[k].severity = "critical"
        THEN << "Critical barriers detected" >> ELSE << >>)

\* MapboxRoutingEngine._calculate_fallback_route: the grid-aligned
\* road-following route of a fresh AdvancedRoutingEngine, and when that
\* raises, the route of a fresh GridBasedRoutingEngine.  grid_imports tells
\* whether grid_routing_engine.py compiles on the interpreter in use (the
\* nested quotes of its line 210 need Python 3.12); ids are the uuids the
\* engines draw, in order.
Mapbox_calculate_fallback_route(request, db, grid_imports, ids, tie) ==
    LET OrGrid(road_following) ==
            IF road_following.kind # "raised" THEN road_following
            ELSE IF grid_imports
                 THEN Grid_calculate_route(request, db, ids[2], ids[3], tie)
                 ELSE Raised("SyntaxError")
    IN OrGrid(_calculate_road_following_route(request, db, ids[1], tie))

\* MapboxRoutingEngine.calculate_route.  token is self.mapbox_token, response
\* the provider's answer; an answer without coordinates gives a Route with no
\* points.
Mapbox_calculate_route(request, db, token, response, grid_imports, route_id, ids, tie) ==
    LET Built(route_points, obstacles, scored) ==
            IF scored.raised THEN Raised("ValidationError")
            ELSE Returned(Route(route_id, route_points, scored.score,
                     Mapbox_generate_route_warnings(scored.score, obstacles),
                     "mapbox", obstacles))
        Measured(route_points, obstacles) ==
            Built(route_points, obstacles,
                  calculate_comprehensive_score(route_points,
                      request.preferences, obstacles, tie))
        \* the three ways into _calculate_fallback_route: no token, no
        \* routes from the provider, an exception in the try block
        OrFallback(converted) ==
            IF converted.kind = "route" THEN converted
            ELSE Mapbox_calculate_fallback_route(request, db, grid_imports,
                                                 ids, tie)
    IN OrFallback(IF ~token \/ response.kind # "ok" THEN ReturnedNone
                  ELSE Measured(_convert_mapbox_route(response.coordinates,
                                                      request),
                                find_obstacles_along_route(db, request.start,
                                                           request.end, 250)))

(***************************************************************************)
(* OsrmRoutingEngine (osrm_routing_engine.py)                              *)
(***************************************************************************)
\* _instruction_from_steps with no steps (index counts from 0)
_instruction_from_steps(index, total) ==
    IF index = 0 THEN "Start your accessible journey"
    ELSE IF index = total - 1 THEN "You have arrived at your destination"
    ELSE "Continue on accessible path"

\* _point_features
_point_features(preferences) ==
    << "Follows real roads/sidewalks" >>
    \o (IF preferences.require_curb_cuts THEN << "Curb cuts preferred" >> ELSE << >>)
    \o (IF preferences.avoid_stairs THEN << "Avoids stairs" >> ELSE << >>)

\* _convert_osrm_route, for the first n coordinates
RECURSIVE OsrmPoints(_, _, _)
OsrmPoints(coordinates, request, n) ==
    IF n = 0 THEN << >>
    ELSE LET before == OsrmPoints(coordinates, request, n - 1)
             Extended(segment_distance) ==
                 Append(before,
                     RoutePoint(coordinates[n].latitude, coordinates[n].longitude,
                         _instruction_from_steps(n - 1, Len(coordinates)),
                         IF n > 1
                         THEN before[n - 1].distance_from_start + segment_distance
                         ELSE 0,
                         << 0 >>, _point_features(request.preferences), << >>,
                         << AidSegmentTime(segment_distance,
                                           request.preferences) >>))
         IN Extended(IF n > 1
                     THEN calculate_distance(coordinates[n - 1].latitude,
                              coordinates[n - 1].longitude,
                              coordinates[n].latitude, coordinates[n].longitude)
                     ELSE 0)

_convert_osrm_route(coordinates, request) ==
    OsrmPoints(coordinates, request, Len(coordinates))

\* OsrmRoutingEngine._generate_route_warnings
Osrm_generate_route_warnings(accessibility_score, obstacles) ==
    (IF accessibility_score.overall_score < 600
     THEN << "Route has accessibility challenges" >> ELSE << >>)
    \o (IF \E k \in DOMAIN obstacles : obstacles[k].severity = "critical"
        THEN << "Critical barriers detected" >> ELSE << >>)

\* OsrmRoutingEngine.calculate_route: None when the provider gives no route
\* or anything raises.  The Route is built without its obstacles field.
Osrm_calculate_route(request, db, response, route_id, tie) ==
    LET Built(route_points, obstacles, scored) ==
            IF scored.raised THEN ReturnedNone
            ELSE Returned(Route(route_id, route_points, scored.score,
                     Osrm_generate_route_warnings(scored.score, obstacles),
                     "osrm", << >>))
        Measured(route_points, obstacles) ==
            Built(route_points, obstacles,
                  calculate_comprehensive_score(route_points,
                      request.preferences, obstacles, tie))
    IN IF response.kind # "ok" THEN ReturnedNone
       ELSE Measured(_convert_osrm_route(response.coordinates, request),
                     find_obstacles_along_route(db, request.start,
                                                request.end, 200))

(***************************************************************************)
(* RoadNetworkRouter (road_network_router.py).  OSM element ids are JSON   *)
(* integers; IntId(n) is the integer n and StrId(n) the string str(n),     *)
(* which Python never finds equal.                                         *)
(***************************************************************************)
IntId(n) == [ type |-> "int", value |-> n ]

StrId(n) == [ type |-> "str", value |-> n ]

\* str(node_id)
Str(id) == StrId(id.value)

OsmNode(id, lat, lon) == [ id |-> id, lat |-> lat, lon |-> lon ]

OsmWay(id, way_nodes) ==
    [ id |-> id, nodes |-> way_nodes, highway |-> "residential",
      surface |-> "asphalt", sidewalk |-> "both" ]

\* the 0.002 degree spacing of the fallback road network
FallbackSpacing == (2 * Degree) \div 1000

\* _create_fallback_road_network: 11 x 11 nodes around (lat, lon), ids
\* 1..121 row by row, then the horizontal and the vertical ways
_create_fallback_road_network(lat, lon) ==
    [ nodes |-> [ k \in 1..121 |->
                    OsmNode(IntId(k),
                            lat + (((k - 1) \div 11) - 5) * FallbackSpacing,
                            lon + (((k - 1) % 11) - 5) * FallbackSpacing) ],
      ways |-> [ w \in 1..220 |->
                   IF w <= 110
                   THEN LET start_node == ((w - 1) \div 10) * 11 + ((w - 1) % 10) + 1
                        IN OsmWay(IntId(w), << IntId(start_node),
                                                IntId(start_node + 1) >>)
                   ELSE LET start_node == w - 110
                        IN OsmWay(IntId(w), << IntId(start_node),
                                                IntId(start_node + 11) >>) ] ]

\* what the Overpass request of _fetch_osm_road_data comes to: it fails (a
\* status other than 200, a timeout, an exception) and the fallback network
\* is used, or it answers with the data of the area
OverpassFailed == [ kind |-> "failed" ]

OverpassData(data) == [ kind |-> "ok", data |-> data ]

_fetch_osm_road_data(lat, lon, overpass) ==
    IF overpass.kind = "ok" THEN overpass.data
    ELSE _create_fallback_road_network(lat, lon)

\* _calculate_edge_accessibility, in hundredths
_calculate_edge_accessibility(way) ==
    LET by_highway == IF way.highway \in {"footway", "pedestrian", "cycleway"} THEN 15
                      ELSE IF way.highway = "residential" THEN 5
                      ELSE IF way.highway \in {"primary", "secondary"} THEN -10
                      ELSE 0
        by_surface == IF way.surface \in {"asphalt", "concrete", "paved"} THEN 10
                      ELSE IF way.surface \in {"gravel", "dirt", "grass"} THEN -20
                      ELSE 0
        by_sidewalk == IF way.sidewalk = "both" THEN 15
                       ELSE IF way.sidewalk \in {"left", "right"} THEN 5
                       ELSE -10
    IN Max2(10, Min2(100, 80 + by_highway + by_surface + by_sidewalk))

\* the edges _build_road_graph adds for one way: consecutive nodes are
\* joined when str(id) of both is a key of nodes_data, whose keys are the
\* ids as the data gives them
WayEdges(osm_data, way) ==
    LET nodes_data == { osm_data.nodes[k].id : k \in DOMAIN osm_data.nodes }
        position(id) == CHOOSE k \in DOMAIN osm_data.nodes :
                           osm_data.nodes[k].id = id
        joined == { i \in 1..(Len(way.nodes) - 1) :
                      /\ Str(way.nodes[i]) \in nodes_data
                      /\ Str(way.nodes[i + 1]) \in nodes_data }
        Edge(i, distance, accessibility_score) ==
            [ from_node |-> Str(way.nodes[i]), to_node |-> Str(way.nodes[i + 1]),
              distance |-> distance, road_type |-> way.highway,
              has_sidewalk |-> way.sidewalk \in {"both", "left", "right"},
              accessibility_score |-> accessibility_score,
              weight |-> (distance * 100) \div accessibility_score ]
        Between(i, a, b) ==
            Edge(i, calculate_distance(a.lat, a.lon, b.lat, b.lon),
                 _calculate_edge_accessibility(way))
    IN { Between(i, osm_data.nodes[position(way.nodes[i])],
                 osm_data.nodes[position(way.nodes[i + 1])]) : i \in joined }

\* _build_road_graph on a fresh router: self.nodes in insertion order, and
\* the edges of the graph
_build_road_graph(osm_data) ==
    [ nodes |-> [ k \in DOMAIN osm_data.nodes |->
                    [ id |-> Str(osm_data.nodes[k].id),
                      lat |-> osm_data.nodes[k].lat,
                      lon |-> osm_data.nodes[k].lon ] ],
      edges |-> UNION { WayEdges(osm_data, osm_data.ways[w]) :
                        w \in DOMAIN osm_data.ways } ]

\* the 500 m snapping limit of RoadNetworkRouter._find_nearest_node
RoadSnapLimit == 500

\* RoadNetworkRouter._find_nearest_node: <<k>> for the k-th node of
\* self.nodes, <<>> for None
Road_find_nearest_node(nodes, lat, lon) ==
    IF Len(nodes) = 0 THEN << >>
    ELSE LET Snapped(best) ==
                 IF best[1] < RoadSnapLimit THEN << best[2] >> ELSE << >>
         IN Snapped(NearestScan(nodes, lat, lon, 1, Len(nodes)))

\* the cheapest walks of at most n edges from the source: for each node k,
\* << >> or << [cost, path] >>
RECURSIVE Cheapest(_, _, _, _)
Cheapest(graph, source, k_set, n) ==
    IF n = 0
    THEN [ k \in k_set |-> IF k = source THEN << [ cost |-> 0, path |-> << k >> ] >>
                           ELSE << >> ]
    ELSE LET prev == Cheapest(graph, source, k_set, n - 1)
             step(k) ==
               { [ cost |-> prev[m][1].cost + e.weight,
                   path |-> Append(prev[m][1].path, k) ] :
                 << m, e >> \in { me \in k_set \X graph.edges :
                     /\ prev[me[1]] # << >>
                     /\ { me[2].from_node, me[2].to_node }
                          = { graph.nodes[me[1]].id, graph.nodes[k].id }
                     /\ me[1] # k } }
             options(k) == step(k) \cup { prev[k][j] : j \in DOMAIN prev[k] }
         IN [ k \in k_set |->
                IF options(k) = {} THEN << >>
                ELSE << CHOOSE o \in options(k) :
                          \A other \in options(k) : o.cost <= other.cost >> ]

\* nx.shortest_path(self.road_graph, start_node, end_node, weight='weight'):
\* << path >>, or << >> for NetworkXNoPath
shortest_path(graph, start_node, end_node) ==
    IF start_node = end_node THEN << << start_node >> >>
    ELSE LET Path(reached) ==
                 IF reached = << >> THEN << >> ELSE << reached[1].path >>
         IN Path(Cheapest(graph, start_node, DOMAIN graph.nodes,
                     Min2(Cardinality(graph.edges),
                          Len(graph.nodes) - 1))[end_node])

\* the edge of the graph between nodes a and b of the path
EdgeBetween(graph, a, b) ==
    CHOOSE e \in graph.edges :
        { e.from_node, e.to_node } = { graph.nodes[a].id, graph.nodes[b].id }

\* _generate_road_instruction (index counts from 0)
_generate_road_instruction(graph, index, total_nodes, path) ==
    IF index = 0 THEN "Start your journey on the accessible route"
    ELSE IF index = total_nodes - 1 THEN "You have arrived at your destination"
    ELSE IF index < total_nodes \div 3
         THEN IF EdgeBetween(graph, path[index], path[index + 1]).road_type
                   = "residential"
              THEN "Continue on residential" ELSE "Continue on road"
    ELSE IF index < (2 * total_nodes) \div 3 THEN "Continue toward destination"
    ELSE "Approaching destination"

\* RoadNetworkRouter._path_to_route_points, for the first n nodes
RECURSIVE RoadPathPoints(_, _, _, _)
RoadPathPoints(graph, path, request, n) ==
    IF n = 0 THEN << >>
    ELSE LET before == RoadPathPoints(graph, path, request, n - 1)
             node == graph.nodes[path[n]]
             Features(edge_data) ==
                 (IF edge_data.has_sidewalk
                  THEN << "Sidewalk available" >> ELSE << >>)
                 \o (IF edge_data.accessibility_score > 80
                     THEN << "High accessibility route" >> ELSE << >>)
                 \o (IF edge_data.road_type \in {"footway", "pedestrian"}
                     THEN << "Pedestrian-only area" >> ELSE << >>)
             Extended(segment_distance, accessibility_features) ==
                 Append(before,
                     RoutePoint(node.lat, node.lon,
                         _generate_road_instruction(graph, n - 1, Len(path), path),
                         IF n > 1
                         THEN before[n - 1].distance_from_start + segment_distance
                         ELSE 0,
                         << 10 >>, accessibility_features, << >>,
                         << AidSegmentTime(segment_distance,
                                           request.preferences) >>))
             Along(edge_data) ==
                 Extended(edge_data.distance, Features(edge_data))
         IN IF n = 1 THEN Extended(0, << >>)
            ELSE Along(EdgeBetween(graph, path[n - 1], path[n]))

\* RoadNetworkRouter._generate_route_warnings
Road_generate_route_warnings(accessibility_score, obstacles) ==
    (IF accessibility_score.overall_score < 600
     THEN << "This route has significant accessibility challenges" >>
     ELSE << >>)
    \o (IF Len(obstacles) > 2
        THEN << "Multiple obstacles detected along route" >> ELSE << >>)
    \o (IF \E k \in DOMAIN obstacles : obstacles[k].severity = "critical"
        THEN << "Critical accessibility barriers detected" >> ELSE << >>)

\* RoadNetworkRouter._calculate_fallback_route: start, midpoint and end
Road_calculate_fallback_route(request, route_id) ==
    LET Direct(total_distance, mid_distance) ==
            Returned(Route(route_id,
              << RoutePoint(request.start.latitude, request.start.longitude,
                            "Start your journey", 0, << 0 >>,
                            << "Starting point" >>, << >>, << 0 >>),
                 RoutePoint((request.start.latitude + request.end.latitude) \div 2,
                            (request.start.longitude + request.end.longitude) \div 2,
                            "Continue toward destination", mid_distance, << 0 >>,
                            << "Accessible pathway" >>, << >>,
                            << (mid_distance * 9) \div 10 >>),
                 RoutePoint(request.end.latitude, request.end.longitude,
                            "You have arrived at your destination",
                            total_distance, << 0 >>,
                            << "Destination reached" >>, << >>,
                            << (total_distance * 9) \div 10 >>) >>,
              FixedFallbackScore,
              << "Using simplified routing - limited road network data" >>,
              "road_network_fallback", << >>))
        Halved(total_distance) == Direct(total_distance, total_distance \div 2)
    IN Halved(calculate_distance(request.start.latitude, request.start.longitude,
                                 request.end.latitude, request.end.longitude))

\* the network initialisation did not finish within the 10 s of wait_for, or
\* raised
InitFailed == [ kind |-> "init_failed" ]

\* RoadNetworkRouter.calculate_route on a fresh router.  fallback_id is the
\* uuid drawn by _calculate_fallback_route.  The Route is built without its
\* obstacles field.
Road_calculate_route(request, db, overpass, route_id, fallback_id, tie) ==
    LET center_lat == (request.start.latitude + request.end.latitude) \div 2
        center_lon == (request.start.longitude + request.end.longitude) \div 2
        Built(route_points, obstacles, scored) ==
            IF scored.raised THEN Raised("ValidationError")
            ELSE Returned(Route(route_id, route_points, scored.score,
                     Road_generate_route_warnings(scored.score, obstacles),
                     "road_network", << >>))
        Measured(route_points, obstacles) ==
            Built(route_points, obstacles,
                  calculate_comprehensive_score(route_points,
                      request.preferences, obstacles, tie))
        \* ReturnedNone stands for the `return await
        \* self._calculate_fallback_route(request)` of the three failures
        Along(graph, path) ==
            IF path = << >> THEN ReturnedNone
            ELSE Measured(RoadPathPoints(graph, path[1], request, Len(path[1])),
                          find_obstacles_along_route(db, request.start,
                                                     request.end, 200))
        Between(graph, start_node, end_node) ==
            IF start_node = << >> \/ end_node = << >> THEN ReturnedNone
            ELSE Along(graph, shortest_path(graph, start_node[1], end_node[1]))
        Routed(graph) ==
            Between(graph,
                    Road_find_nearest_node(graph.nodes,
                        request.start.latitude, request.start.longitude),
                    Road_find_nearest_node(graph.nodes,
                        request.end.latitude, request.end.longitude))
        OrFallback(routed) ==
            IF routed.kind = "none"
            THEN Road_calculate_fallback_route(request, fallback_id)
            ELSE routed
    IN OrFallback(IF overpass.kind = "init_failed" THEN ReturnedNone
                  ELSE Routed(_build_road_graph(
                           _fetch_osm_road_data(center_lat, center_lon,
                                                overpass))))

\* Overpass data of the area of a request: nothing; one node half way
\* between start and end; a way from a node at the start to a node at the end
OsmNothing == [ nodes |-> << >>, ways |-> << >> ]

OsmMidpoint(request) ==
    [ nodes |-> << OsmNode(IntId(1),
                     (request.start.latitude + request.end.latitude) \div 2,
                     (request.start.longitude + request.end.longitude) \div 2) >>,
      ways |-> << >> ]

OsmStreet(request) ==
    [ nodes |-> << OsmNode(IntId(1), request.start.latitude,
                           request.start.longitude),
                   OsmNode(IntId(2), request.end.latitude,
                           request.end.longitude) >>,
      ways |-> << OsmWay(IntId(3), << IntId(1), IntId(2) >>) >> ]

(***************************************************************************)
(* AdvancedRoutingEngine.calculate_route, lattice stage (lines 131-183):   *)
(* the lattice is built, scored and searched, and the path becomes the     *)
(* "intelligent_road_network" Route; with no path, or when anything        *)
(* raises, _calculate_fallback_route answers instead.                      *)
(***************************************************************************)
\* every reverse segment were its forward segment once more
_build_road_network_segments_one_way(nodes) ==
    LET Segment(ends) ==
            [ from_node |-> ends[1], to_node |-> ends[2],
              distance |-> SegmentDistance(nodes, ends[1], ends[2]),
              accessibility_score |-> One ]
    IN [ n \in 1..NumSegments |-> Segment(SegmentEnds(n - ((n + 1) % 2))) ]

\* self.segments as _build_road_network leaves them: accessibility_score 1.0
_build_road_network_segments(nodes) ==
    LET Segment(ends) ==
            [ from_node |-> ends[1], to_node |-> ends[2],
              distance |-> SegmentDistance(nodes, ends[1], ends[2]),
              accessibility_score |-> One ]
    IN [ n \in 1..NumSegments |-> Segment(SegmentEnds(n)) ]

\* [nodes, segments, outcome]: self.nodes and self.segments after the stage
\* and what calculate_route hands to its caller, one outcome for each way a
\* rounding tie of the scorer falls
LatticeStage(request, db, own_id, fallback_id) ==
    LET \* the `except Exception` of lines 181-183
        OrFallback(route, tie) ==
            IF route.kind = "raised"
            THEN _calculate_fallback_route(request, db, fallback_id, tie)
            ELSE route
        Routed(built, found, tie) ==
            IF found.kind = "raised" THEN found
            ELSE IF found.path = << >> THEN Raised("no path")
            ELSE LatticeRoute(found.path[1], built, request, db, own_id, tie)
        Stage(built, scored, found) ==
            [ nodes |-> built, segments |-> scored,
              outcome |-> { OrFallback(Routed(built, found, tie), tie) :
                            tie \in {0, 1} } ]
        \* _find_accessible_path, unless _integrate_accessibility_data raised
        Searched(built, valid, scored) ==
            Stage(built, scored,
                  IF valid
                  THEN [ kind |-> "path",
                         path |-> _find_accessible_path(built, scored, request) ]
                  ELSE Raised("ValidationError"))
        Built(built, valid) ==
            Searched(built, valid,
                     IF valid
                     THEN _integrate_accessibility_data(built,
                              request.preferences, db)
                     ELSE _build_road_network_segments(built))
        Checked(built) == Built(built, NodesValid(built))
    IN Checked(_build_road_network_nodes(request.start, request.end))

\* an acceptance rule that lets a 2-point route through
AcceptsTwoPointRoute(outcome) ==
    /\ outcome.kind = "route"
    /\ Len(outcome.route.points) > 1

\* the acceptance rule of the Mapbox, OSRM and road-network stages:
\* `route and route.points and len(route.points) > 2`
AcceptsStageRoute(outcome) ==
    /\ outcome.kind = "route"
    /\ outcome.route.points # << >>
    /\ Len(outcome.route.points) > 2

(***************************************************************************)
(* State.  The first four variables hold what a caller hands to the scorer *)
(* and gets back, the next two what it hands to the grid-aligned generator *)
(* and gets back; the others are the routing engine and its caller.        *)
(***************************************************************************)
VARIABLES
    an_points,       \* route points handed to the scorer
    an_obstacles,    \* obstacles handed to the scorer
    an_preferences,  \* preferences handed to the scorer
    an_result,       \* what the scorer gave back
    gf_request,      \* request handed to _generate_grid_aligned_points
    gf_result,       \* what _generate_grid_aligned_points gave back
    pc,              \* where calculate_route stands
    request,         \* the request of the call in progress
    route_id,        \* the uuid calculate_route drew at line 89
    result,          \* what calculate_route hands to its caller
    attempted,       \* the stages this call ran, with what each came to
    nodes,           \* self.nodes of the AdvancedRoutingEngine
    segments,        \* self.segments
    route_cache,     \* self.route_cache
    mapbox_token,    \* settings.MAPBOX_API_KEY is set
    grid_imports,    \* grid_routing_engine.py compiles (Python >= 3.12)
    calls,           \* calls that returned to the caller
    previous,        \* request and result of the call before
    computed,        \* what each engine works out for each request
    rn_pc,           \* where initialize_road_network stands
    rn_request,      \* the request whose road network is initialised
    rn_overpass,     \* what the Overpass request comes to
    rn_road_data,    \* road_data of initialize_road_network
    rn_graph,        \* self.nodes and the edges of self.road_graph
    pf_pc,           \* where the lattice search stands
    pf_request,      \* the request whose lattice is built and searched
    pf_nodes,        \* self.nodes of the engine searched
    pf_segments,     \* self.segments of the engine searched
    pf_penalized,    \* the one segment a test penalized, or 0
    pf_path,         \* what _find_accessible_path returned
    cc_pc,           \* for each concurrent call, the await it stands at
    cc_request,      \* the request of each concurrent call
    cc_running,      \* the call the event loop is running, 0 when it is free
    cc_built_by,     \* the call whose _build_road_network filled self.nodes
    cc_scored_by,    \* the call that last scored self.segments
    cc_path,         \* what each call searched and the path it found
    dl_pc,           \* the stage a timed calculate_route call waits in
    dl_token,        \* the timed call has a Mapbox token
    dl_waited,       \* seconds the timed call has waited in its stage
    dl_elapsed,      \* seconds since the API layer awaited the timed call
    ob_db,           \* self.obstacles_db of the ObstacleDetector, in dict order
    ob_data,         \* the obstacle_data the reports of this run carry
    ob_reports,      \* report_obstacle calls so far
    ob_returned,     \* the id the last report_obstacle returned, was it new
    ob_query,        \* the last find_obstacles_along_route call, its store
    ob_found,        \* what it returned
    geo_points,      \* route_points handed to simplify_route
    geo_tolerance,   \* its tolerance, in metres
    geo_once,        \* simplify_route(route_points, tolerance)
    geo_twice,       \* simplify_route of that, with the same tolerance
    geo_measure,     \* a distance measured both ways, and of a point to itself
    sn_owner,        \* the class whose _find_nearest_node is called
    sn_nodes,        \* its self.nodes
    sn_found         \* the coordinate of the last call and what it returned

an_vars == << an_points, an_obstacles, an_preferences, an_result >>

gf_vars == << gf_request, gf_result >>

re_vars == << pc, request, route_id, result, attempted, nodes, segments,
              route_cache, mapbox_token, grid_imports, calls, previous, computed >>

rn_vars == << rn_pc, rn_request, rn_overpass, rn_road_data, rn_graph >>

\* the variables of the components exercised on their own besides the
\* scorer and the grid-aligned generator
pf_vars == << pf_pc, pf_request, pf_nodes, pf_segments, pf_penalized, pf_path >>

cc_vars == << cc_pc, cc_request, cc_running, cc_built_by, cc_scored_by, cc_path >>

dl_vars == << dl_pc, dl_token, dl_waited, dl_elapsed >>

ob_vars == << ob_db, ob_data, ob_reports, ob_returned, ob_query, ob_found >>

geo_vars == << geo_points, geo_tolerance, geo_once, geo_twice, geo_measure >>

sn_vars == << sn_owner, sn_nodes, sn_found >>

lab_vars == << dl_vars, ob_vars, geo_vars, sn_vars >>

bench_vars == << rn_vars, pf_vars, cc_vars, lab_vars >>

vars == << an_vars, gf_vars, re_vars, bench_vars >>

NoResult == [ kind |-> "none" ]

NoRequest == [ kind |-> "none" ]

\* nothing is handed to the scorer
ScorerIdle ==
    /\ an_points = << >>
    /\ an_obstacles = << >>
    /\ an_preferences = DefaultPreferences
    /\ an_result = NoResult

\* nothing is handed to the grid-aligned generator
GridHarnessIdle ==
    /\ gf_request = NoRequest
    /\ gf_result = NoResult

\* no road network is being initialised
RoadHarnessIdle ==
    /\ rn_pc = "idle"
    /\ rn_request = NoRequest
    /\ rn_overpass = NoResult
    /\ rn_road_data = << >>
    /\ rn_graph = << >>

\* no lattice is being searched
PathHarnessIdle ==
    /\ pf_pc = "idle"
    /\ pf_request = NoRequest
    /\ pf_nodes = << >>
    /\ pf_segments = << >>
    /\ pf_penalized = 0
    /\ pf_path = NoResult

\* no concurrent calls are under way
ConcurrentIdle ==
    /\ cc_pc = << >>
    /\ cc_request = << >>
    /\ cc_running = 0
    /\ cc_built_by = 0
    /\ cc_scored_by = 0
    /\ cc_path = << >>

\* no timed call is under way
DeadlineIdle ==
    /\ dl_pc = "idle"
    /\ dl_token = FALSE
    /\ dl_waited = 0
    /\ dl_elapsed = 0

\* the obstacle store is not exercised
ObstaclesIdle ==
    /\ ob_db = << >>
    /\ ob_data = << >>
    /\ ob_reports = 0
    /\ ob_returned = << >>
    /\ ob_query = << >>
    /\ ob_found = << >>

\* the GeospatialProcessor is not exercised
GeoIdle ==
    /\ geo_points = << >>
    /\ geo_tolerance = 0
    /\ geo_once = NoResult
    /\ geo_twice = NoResult
    /\ geo_measure = NoResult

\* no node is looked up
SnapIdle ==
    /\ sn_owner = ""
    /\ sn_nodes = << >>
    /\ sn_found = NoResult

LabIdle == DeadlineIdle /\ ObstaclesIdle /\ GeoIdle /\ SnapIdle

BenchIdle == RoadHarnessIdle /\ PathHarnessIdle /\ ConcurrentIdle /\ LabIdle

\* the engine is not in use
EngineIdle ==
    /\ pc = "idle"
    /\ request = NoRequest
    /\ route_id = 0
    /\ result = NoResult
    /\ attempted = << >>
    /\ nodes = << >>
    /\ segments = << >>
    /\ route_cache = << >>
    /\ mapbox_token = FALSE
    /\ grid_imports = FALSE
    /\ calls = 0
    /\ previous = NoResult
    /\ computed = << >>

(***************************************************************************)
(* The scorer on its own: calculate_comprehensive_score applied to route   *)
(* points, preferences and obstacles a caller assembled.                   *)
(***************************************************************************)
\* most route points / obstacles handed to the scorer
MaxScoredPoints == 3
MaxScoredObstacles == 3

\* route points as the engines and providers emit them
ScoredPointSet ==
    { RoutePoint(377749, -1224194, "Start your journey", 0, <<0>>,
                 <<"Accessible path", "Safe intersection">>, <<>>, <<>>),
      RoutePoint(377749, -1224154, "Continue", 35, <<10>>,
                 <<"Wider sidewalk with lighting", "Well-lit protected crossing">>,
                 <<>>, <<30>>),
      RoutePoint(377769, -1224154, "Continue", 57, <<12>>,
                 <<"Pedestrian-only area">>,
                 <<"Uneven cracked surface", "Narrow width ahead",
                   "Unsafe crossing, busy road traffic">>, <<20>>),
      RoutePoint(377769, -1224194, "Arrive", 92, <<>>,
                 <<>>, <<>>, <<>>) }

ScoredObstacleSet ==
    { sample_obstacles[1], sample_obstacles[2], sample_obstacles[4],
      reported_obstacle }

ScoreInit ==
    /\ an_points = <<>>
    /\ an_obstacles = <<>>
    /\ an_preferences \in PreferenceSet
    /\ an_result = NoResult
    /\ GridHarnessIdle
    /\ EngineIdle
    /\ BenchIdle

\* the caller adds a point to the route it will have scored
AddScoredPoint ==
    /\ an_result = NoResult
    /\ Len(an_points) < MaxScoredPoints
    /\ \E p \in ScoredPointSet : an_points' = Append(an_points, p)
    /\ UNCHANGED << an_obstacles, an_preferences, an_result, gf_vars, re_vars,
                    bench_vars >>

\* the caller adds an obstacle to the list it will pass
AddScoredObstacle ==
    /\ an_result = NoResult
    /\ Len(an_obstacles) < MaxScoredObstacles
    /\ \E o \in ScoredObstacleSet : an_obstacles' = Append(an_obstacles, o)
    /\ UNCHANGED << an_points, an_preferences, an_result, gf_vars, re_vars,
                    bench_vars >>

\* await analyzer.calculate_comprehensive_score(points, preferences, obstacles)
Score ==
    /\ an_result = NoResult
    /\ \E tie \in {0, 1} :
         LET r == calculate_comprehensive_score(an_points, an_preferences,
                                                an_obstacles, tie)
         IN an_result' = IF r.raised THEN [ kind |-> "raised" ]
                         ELSE [ kind |-> "score", score |-> r.score ]
    /\ UNCHANGED << an_points, an_obstacles, an_preferences, gf_vars, re_vars,
                    bench_vars >>

ScoreNext == AddScoredPoint \/ AddScoredObstacle \/ Score

SpecScore == ScoreInit /\ [][ScoreNext]_vars


(***************************************************************************)
(* The grid-aligned generator on its own: _generate_grid_aligned_points    *)
(* applied to a valid request.                                             *)
(***************************************************************************)
\* start and end coordinates: a downtown block, a point one block north-east
\* of it, one across the city, one on the 180th meridian, one due east of
\* the downtown block
GridCoordinateSet ==
    { Coordinates(377749, -1224194), Coordinates(377759, -1224184),
      Coordinates(378049, -1224094), Coordinates(-168000, 1799950),
      Coordinates(377749, -1224094) }

GridInit ==
    /\ gf_request \in { RouteRequest(s, e, l, p) :
                          s \in GridCoordinateSet, e \in GridCoordinateSet,
                          l \in {"high", "medium", "low"}, p \in PreferenceSet }
    /\ gf_result = NoResult
    /\ ScorerIdle
    /\ EngineIdle
    /\ BenchIdle

\* points = self._generate_grid_aligned_points(request)
GenerateGridAlignedPoints ==
    /\ gf_result = NoResult
    /\ LET r == _generate_grid_aligned_points(gf_request)
       IN gf_result' = IF r.raised THEN Raised("TypeError")
                       ELSE [ kind |-> "points", points |-> r.points ]
    /\ UNCHANGED << gf_request, an_vars, re_vars, bench_vars >>

GridNext == GenerateGridAlignedPoints

SpecGrid == GridInit /\ [][GridNext]_vars

(***************************************************************************)
(* AdvancedRoutingEngine.calculate_route called by the route handlers, one *)
(* call after the other on the engine of the application.  Each stage      *)
(* builds its own engine, so the Mapbox, OSRM and road-network stages      *)
(* always see the sample obstacles.                                        *)
(***************************************************************************)
Downtown == Coordinates(377749, -1224194)

Uptown == Coordinates(377769, -1224114)

\* where the sample obstacle obs_002 (stairs, critical) lies
Steps == Coordinates(377849, -1224094)

\* on the 180th meridian
Taveuni == Coordinates(-168000, 1799950)

RequestSet ==
    { RouteRequest(Downtown, Downtown, "medium", DefaultPreferences),
      RouteRequest(Downtown, Uptown, "medium", DefaultPreferences),
      RouteRequest(Downtown, Uptown, "high", WheelchairPreferences),
      RouteRequest(Taveuni, Taveuni, "low", CanePreferences),
      RouteRequest(Downtown, Steps, "medium", DefaultPreferences) }

\* what the Mapbox Directions request can come to
MapboxAnswers(r) ==
    { ProviderFailed, ProviderNoRoutes }
    \cup { ProviderGeometry(r, n) : n \in 0..MaxGeom }

\* what the OSRM request can come to
OsrmAnswers(r) ==
    { ProviderFailed } \cup { ProviderGeometry(r, n) : n \in 0..MaxGeom }

\* what the network initialisation of the road-network router can come to
OverpassAnswers(r) ==
    { InitFailed, OverpassFailed, OverpassData(OsmNothing),
      OverpassData(OsmMidpoint(r)), OverpassData(OsmStreet(r)) }

\* what the engines of the stages work out for request r and each answer
\* of the provider: one outcome for each way a rounding tie of the scorer
\* falls.  A route_id of 0 is the uuid calculate_route drew itself, k > 0
\* the k-th uuid drawn in the stage.
EngineResults(r) ==
    [ mapbox |->
        [ a \in MapboxAnswers(r) |-> [ g \in BOOLEAN |->
            { Mapbox_calculate_route(r, sample_obstacles, TRUE, a, g, 1,
                                     << 2, 3, 4 >>, tie) : tie \in {0, 1} } ] ],
      osrm |->
        [ a \in OsrmAnswers(r) |->
            { Osrm_calculate_route(r, sample_obstacles, a, 1, tie) :
              tie \in {0, 1} } ],
      road_network |->
        [ a \in OverpassAnswers(r) |->
            { Road_calculate_route(r, sample_obstacles, a, 1, 2, tie) :
              tie \in {0, 1} } ],
      lattice |-> LatticeStage(r, sample_obstacles, 0, 1) ]

\* most uuids one call draws: its own, 4 in the Mapbox stage, 1 in the
\* OSRM stage, 2 in the road-network stage, 1 in the grid fallback
UuidsPerCall == 9

\* the uuid4 values are all different: the k-th uuid of call number `call`
Uuid(call, k) == call * UuidsPerCall + k

\* the outcome with its uuid: own is the uuid of calculate_route, drawn the
\* number of uuids drawn in the call before the stage
WithUuid(outcome, own, drawn) ==
    IF outcome.kind # "route" THEN outcome
    ELSE [ outcome EXCEPT !.route.route_id = IF @ = 0 THEN own ELSE own + drawn + @ ]

\* _generate_cache_key: start and end to 4 decimals (the unit of the
\* coordinates here), the accessibility level and the mobility aid
_generate_cache_key(r) ==
    << r.start.latitude, r.start.longitude, r.end.latitude, r.end.longitude,
       r.accessibility_level, r.preferences.mobility_aid >>

\* the record of a stage in `attempted`
Attempt(stage, answer, outcome) ==
    [ stage |-> stage, answer |-> answer.kind, outcome |-> outcome.kind,
      points |-> IF outcome.kind = "route" THEN Len(outcome.route.points) ELSE 0,
      engine |-> IF outcome.kind = "route" THEN outcome.route.routing_engine
                 ELSE "none",
      accepted |-> AcceptsStageRoute(outcome) ]

Init ==
    /\ computed = [ r \in RequestSet |-> EngineResults(r) ]
    /\ mapbox_token \in BOOLEAN
    /\ grid_imports \in BOOLEAN
    /\ pc = "idle"
    /\ request = NoRequest
    /\ route_id = 0
    /\ result = NoResult
    /\ attempted = << >>
    /\ nodes = << >>
    /\ segments = << >>
    /\ route_cache = << >>
    /\ calls = 0
    /\ previous = NoResult
    /\ ScorerIdle
    /\ GridHarnessIdle
    /\ BenchIdle

\* a handler awaits routing_engine.calculate_route(request): lines 88-89
CalculateRoute ==
    /\ pc = "idle"
    /\ calls < MaxCalls
    /\ \E r \in RequestSet : request' = r
    /\ route_id' = Uuid(calls, 1)
    /\ result' = NoResult
    /\ attempted' = << >>
    /\ pc' = "mapbox"
    /\ UNCHANGED << nodes, segments, route_cache, mapbox_token, grid_imports,
                    calls, previous, computed, an_vars, gf_vars, bench_vars >>

\* lines 95-107: the Mapbox stage, skipped without a token
MapboxStage ==
    /\ pc = "mapbox"
    /\ IF ~mapbox_token
       THEN /\ pc' = "osrm"
            /\ UNCHANGED << result, attempted >>
       ELSE \E a \in MapboxAnswers(request) :
            \E worked_out \in computed[request].mapbox[a][grid_imports] :
              LET mapbox_route == WithUuid(worked_out, route_id, 0)
              IN /\ attempted' = Append(attempted,
                                        Attempt("mapbox", a, mapbox_route))
                 /\ IF AcceptsStageRoute(mapbox_route)
                    THEN result' = mapbox_route /\ pc' = "returned"
                    ELSE result' = result /\ pc' = "osrm"
    /\ UNCHANGED << request, route_id, nodes, segments, route_cache,
                    mapbox_token, grid_imports, calls, previous, computed,
                    an_vars, gf_vars, bench_vars >>

\* lines 109-118: the OSRM stage
OsrmStage ==
    /\ pc = "osrm"
    /\ \E a \in OsrmAnswers(request) :
       \E worked_out \in computed[request].osrm[a] :
         LET osrm_route == WithUuid(worked_out, route_id, 4)
         IN /\ attempted' = Append(attempted, Attempt("osrm", a, osrm_route))
            /\ IF AcceptsStageRoute(osrm_route)
               THEN result' = osrm_route /\ pc' = "returned"
               ELSE result' = result /\ pc' = "road_network"
    /\ UNCHANGED << request, route_id, nodes, segments, route_cache,
                    mapbox_token, grid_imports, calls, previous, computed,
                    an_vars, gf_vars, bench_vars >>

\* lines 120-129: the road-network stage
RoadNetworkStage ==
    /\ pc = "road_network"
    /\ \E a \in OverpassAnswers(request) :
       \E worked_out \in computed[request].road_network[a] :
         LET rn_route == WithUuid(worked_out, route_id, 5)
         IN /\ attempted' = Append(attempted,
                                   Attempt("road_network", a, rn_route))
            /\ IF AcceptsStageRoute(rn_route)
               THEN result' = rn_route /\ pc' = "returned"
               ELSE result' = result /\ pc' = "lattice"
    /\ UNCHANGED << request, route_id, nodes, segments, route_cache,
                    mapbox_token, grid_imports, calls, previous, computed,
                    an_vars, gf_vars, bench_vars >>

\* lines 131-183: the lattice stage, with the grid fallback when it finds
\* no path or raises
LatticeFallbackStage ==
    /\ pc = "lattice"
    /\ \E worked_out \in computed[request].lattice.outcome :
         LET stage == computed[request].lattice
             outcome == WithUuid(worked_out, route_id, 7)
         IN /\ nodes' = stage.nodes
            /\ segments' = stage.segments
            /\ attempted' = Append(attempted,
                                   Attempt("lattice", [ kind |-> "local" ],
                                           outcome))
            /\ result' = outcome
    /\ pc' = "returned"
    /\ UNCHANGED << request, route_id, route_cache, mapbox_token, grid_imports,
                    calls, previous, computed, an_vars, gf_vars, bench_vars >>

\* the handler has the Route, or the exception, of the call; the locals of
\* the call are gone
Return ==
    /\ pc = "returned"
    /\ pc' = "idle"
    /\ calls' = calls + 1
    /\ previous' = [ kind |-> "call", request |-> request,
                     outcome |-> result.kind,
                     route_id |-> IF result.kind = "route"
                                  THEN result.route.route_id ELSE 0 ]
    /\ request' = NoRequest
    /\ route_id' = 0
    /\ result' = NoResult
    /\ attempted' = << >>
    /\ UNCHANGED << nodes, segments, route_cache, mapbox_token, grid_imports,
                    computed, an_vars, gf_vars, bench_vars >>

Next ==
    \/ CalculateRoute
    \/ MapboxStage
    \/ OsrmStage
    \/ RoadNetworkStage
    \/ LatticeFallbackStage
    \/ Return

Spec == Init /\ [][Next]_vars

(***************************************************************************)
(* RoadNetworkRouter.initialize_road_network on a fresh router, for the     *)
(* centre of a request: the road data are fetched, then the graph is built. *)
(***************************************************************************)
\* the Overpass request fails: with an exception, a timeout, a status
\* other than 200
OverpassFailure(reason) == [ kind |-> "failed", reason |-> reason ]

\* Overpass data with a way one of whose nodes the data do not hold
OsmDangling(r) ==
    [ nodes |-> << OsmNode(IntId(1), r.start.latitude, r.start.longitude),
                   OsmNode(IntId(2), r.end.latitude, r.end.longitude) >>,
      ways |-> << OsmWay(IntId(3), << IntId(1), IntId(2), IntId(4) >>) >> ]

FetchAnswers(r) ==
    { OverpassFailure(reason) : reason \in {"exception", "timeout", "status"} }
    \cup { OverpassData(data) :
             data \in { OsmNothing, OsmMidpoint(r), OsmStreet(r), OsmDangling(r) } }

RoadInit ==
    /\ rn_pc = "fetch"
    /\ rn_request \in RequestSet
    /\ rn_overpass \in FetchAnswers(rn_request)
    /\ rn_road_data = << >>
    /\ rn_graph = << >>
    /\ ScorerIdle
    /\ GridHarnessIdle
    /\ EngineIdle
    /\ PathHarnessIdle
    /\ ConcurrentIdle
    /\ LabIdle

\* road_data = await self._fetch_osm_road_data(center_lat, center_lon, radius)
FetchOsmRoadData ==
    /\ rn_pc = "fetch"
    /\ rn_road_data' =
          _fetch_osm_road_data(
              (rn_request.start.latitude + rn_request.end.latitude) \div 2,
              (rn_request.start.longitude + rn_request.end.longitude) \div 2,
              rn_overpass)
    /\ rn_pc' = "build"
    /\ UNCHANGED << rn_request, rn_overpass, rn_graph, an_vars, gf_vars, re_vars,
                    pf_vars, cc_vars, lab_vars >>

\* await self._build_road_graph(road_data)
BuildRoadGraph ==
    /\ rn_pc = "build"
    /\ rn_graph' = _build_road_graph(rn_road_data)
    /\ rn_pc' = "initialized"
    /\ UNCHANGED << rn_request, rn_overpass, rn_road_data, an_vars, gf_vars,
                    re_vars, pf_vars, cc_vars, lab_vars >>

RoadNext == FetchOsmRoadData \/ BuildRoadGraph

SpecRoad == RoadInit /\ [][RoadNext]_vars

(***************************************************************************)
(* The lattice search on its own: _build_road_network, then either          *)
(* _integrate_accessibility_data or a test that penalizes one segment of    *)
(* the fresh lattice, then _find_accessible_path.                           *)
(***************************************************************************)
\* the accessibility_score a test gives the segment it penalizes
PenalizedScore == One \div 10

\* the nodes the start and the end of a request snap to
SnappedEnds(lattice, r) ==
    LET Both(ends) == { ends[k] : k \in DOMAIN ends }
    IN Both(_find_nearest_node(lattice, r.start.latitude, r.start.longitude)
            \o _find_nearest_node(lattice, r.end.latitude, r.end.longitude))

\* the segments that leave or enter one of the nodes of ends
SegmentsAt(lattice_segments, ends) ==
    { n \in DOMAIN lattice_segments :
        \/ lattice_segments[n].from_node \in ends
        \/ lattice_segments[n].to_node \in ends }

\* a request in Los Angeles whose lattice has the steep slope obs_006
\* halfway between two nodes of one row, 92 m from each
HillRequest ==
    RouteRequest(Coordinates(340512, -1182447), Coordinates(340532, -1182447),
                 "medium", DefaultPreferences)

PathInit ==
    /\ pf_pc = "build"
    /\ pf_request \in RequestSet \cup { HillRequest }
    /\ pf_nodes = << >>
    /\ pf_segments = << >>
    /\ pf_penalized = 0
    /\ pf_path = NoResult
    /\ ScorerIdle
    /\ GridHarnessIdle
    /\ EngineIdle
    /\ RoadHarnessIdle
    /\ ConcurrentIdle
    /\ LabIdle

\* await self._build_road_network(request.start, request.end)
BuildRoadNetwork ==
    /\ pf_pc = "build"
    /\ LET Built(lattice) ==
               /\ pf_nodes' = lattice
               /\ pf_segments' = _build_road_network_segments(lattice)
       IN Built(_build_road_network_nodes(pf_request.start, pf_request.end))
    /\ pf_pc' = "integrate"
    /\ UNCHANGED << pf_request, pf_penalized, pf_path, an_vars, gf_vars, re_vars,
                    rn_vars, cc_vars, lab_vars >>

\* await self._integrate_accessibility_data(request.preferences)
IntegrateAccessibilityData ==
    /\ pf_pc = "integrate"
    /\ IF NodesValid(pf_nodes)
       THEN /\ pf_segments' = _integrate_accessibility_data(pf_nodes,
                                  pf_request.preferences, sample_obstacles)
            /\ pf_pc' = "find"
            /\ pf_path' = pf_path
       ELSE /\ pf_segments' = pf_segments
            /\ pf_pc' = "done"
            /\ pf_path' = Raised("ValidationError")
    /\ UNCHANGED << pf_request, pf_nodes, pf_penalized, an_vars, gf_vars, re_vars,
                    rn_vars, cc_vars, lab_vars >>

\* a test lowers the accessibility_score of one segment of the fresh lattice
PenalizeSegment ==
    /\ pf_pc = "integrate"
    /\ \E n \in SegmentsAt(pf_segments, SnappedEnds(pf_nodes, pf_request)) :
         /\ pf_segments' = [ pf_segments EXCEPT
                                ![n].accessibility_score = PenalizedScore ]
         /\ pf_penalized' = n
    /\ pf_pc' = "find"
    /\ UNCHANGED << pf_request, pf_nodes, pf_path, an_vars, gf_vars, re_vars,
                    rn_vars, cc_vars, lab_vars >>

\* path = await self._find_accessible_path(request)
FindAccessiblePath ==
    /\ pf_pc = "find"
    /\ pf_path' = [ kind |-> "path",
                    path |-> _find_accessible_path(pf_nodes, pf_segments,
                                                   pf_request) ]
    /\ pf_pc' = "done"
    /\ UNCHANGED << pf_request, pf_nodes, pf_segments, pf_penalized, an_vars,
                    gf_vars, re_vars, rn_vars,
                    cc_vars, lab_vars >>

PathNext ==
    \/ BuildRoadNetwork
    \/ IntegrateAccessibilityData
    \/ PenalizeSegment
    \/ FindAccessiblePath

SpecPath == PathInit /\ [][PathNext]_vars

(***************************************************************************)
(* Several calculate_route calls on the one engine of the application      *)
(* (api/routes.py, line 27).  Each call is a task of the one event loop:   *)
(* a task keeps the loop until it awaits something that suspends, and      *)
(* another task runs only then.  The provider and road-network stages      *)
(* await HTTP requests; _build_road_network, _integrate_accessibility_data, *)
(* _find_accessible_path and _path_to_route_points hold no await that      *)
(* suspends.  What the provider stages come to is left open here.          *)
(***************************************************************************)
\* most calls under way at once
MaxConcurrent == 2

Tasks == 1..MaxConcurrent

\* requests with different lattices
ConcurrentRequests ==
    { RouteRequest(Downtown, Uptown, "medium", DefaultPreferences),
      RouteRequest(Downtown, Steps, "medium", DefaultPreferences) }

\* every await hands the event loop to the other tasks
AwaitSuspends_always(coroutine) == TRUE

\* awaiting the coroutine suspends the task: it waits for an HTTP response
AwaitSuspends(coroutine) ==
    coroutine \in { "mapbox", "osrm", "road_network" }

\* the task the loop runs once task c stands at the await of the coroutine
LoopAfter(c, coroutine) ==
    IF coroutine = "returned" \/ AwaitSuspends(coroutine) THEN 0 ELSE c

\* task c proceeds to the await of the coroutine
Proceed(c, coroutine) ==
    /\ cc_pc' = [ cc_pc EXCEPT ![c] = coroutine ]
    /\ cc_running' = LoopAfter(c, coroutine)

\* the event loop can run task c: it is running it, or runs no task
CanRun(c) == cc_running \in { 0, c }

\* the variables of the engine the concurrent calls leave alone
re_rest == << pc, request, route_id, result, attempted, route_cache,
              grid_imports, calls, previous, computed >>

ConcurrentInit ==
    /\ cc_pc = [ c \in Tasks |-> "called" ]
    /\ cc_request \in [ Tasks -> ConcurrentRequests ]
    /\ cc_running = 0
    /\ cc_built_by = 0
    /\ cc_scored_by = 0
    /\ cc_path = [ c \in Tasks |-> NoResult ]
    /\ mapbox_token \in BOOLEAN
    /\ nodes = << >>
    /\ segments = << >>
    /\ pc = "idle"
    /\ request = NoRequest
    /\ route_id = 0
    /\ result = NoResult
    /\ attempted = << >>
    /\ route_cache = << >>
    /\ grid_imports = FALSE
    /\ calls = 0
    /\ previous = NoResult
    /\ computed = << >>
    /\ ScorerIdle
    /\ GridHarnessIdle
    /\ RoadHarnessIdle
    /\ PathHarnessIdle
    /\ LabIdle

\* lines 88-100: the call starts and reaches its first provider
TaskBegins(c) ==
    /\ cc_pc[c] = "called"
    /\ CanRun(c)
    /\ Proceed(c, IF mapbox_token THEN "mapbox" ELSE "osrm")
    /\ UNCHANGED << cc_request, cc_built_by, cc_scored_by, cc_path, nodes,
                    segments, mapbox_token, re_rest, an_vars, gf_vars, rn_vars,
                    pf_vars, lab_vars >>

\* lines 100-113, 113-124, 124-132: the provider answers; its route is
\* returned, or the call goes on to the next stage
TaskProvider(c) ==
    /\ cc_pc[c] \in { "mapbox", "osrm", "road_network" }
    /\ CanRun(c)
    /\ \E accepted \in BOOLEAN :
         Proceed(c, IF accepted THEN "returned"
                    ELSE IF cc_pc[c] = "mapbox" THEN "osrm"
                    ELSE IF cc_pc[c] = "osrm" THEN "road_network"
                    ELSE "build")
    /\ UNCHANGED << cc_request, cc_built_by, cc_scored_by, cc_path, nodes,
                    segments, mapbox_token, re_rest, an_vars, gf_vars, rn_vars,
                    pf_vars, lab_vars >>

\* line 132: await self._build_road_network(request.start, request.end)
TaskBuilds(c) ==
    /\ cc_pc[c] = "build"
    /\ CanRun(c)
    /\ LET Built(lattice) ==
               /\ nodes' = lattice
               /\ segments' = _build_road_network_segments(lattice)
       IN Built(_build_road_network_nodes(cc_request[c].start,
                                          cc_request[c].end))
    /\ cc_built_by' = c
    /\ cc_scored_by' = 0
    /\ Proceed(c, "integrate")
    /\ UNCHANGED << cc_request, cc_path, mapbox_token, re_rest, an_vars,
                    gf_vars, rn_vars, pf_vars, lab_vars >>

\* line 135: await self._integrate_accessibility_data(request.preferences);
\* when it raises, the grid fallback answers (line 183)
TaskIntegrates(c) ==
    /\ cc_pc[c] = "integrate"
    /\ CanRun(c)
    /\ IF NodesValid(nodes)
       THEN /\ segments' = _integrate_accessibility_data(nodes,
                               cc_request[c].preferences, sample_obstacles)
            /\ cc_scored_by' = c
            /\ Proceed(c, "find")
       ELSE /\ UNCHANGED << segments, cc_scored_by >>
            /\ Proceed(c, "returned")
    /\ UNCHANGED << cc_request, cc_built_by, cc_path, nodes, mapbox_token,
                    re_rest, an_vars, gf_vars, rn_vars, pf_vars, lab_vars >>

\* lines 138-142: path = await self._find_accessible_path(request); without
\* a path the grid fallback answers
TaskSearches(c) ==
    /\ cc_pc[c] = "find"
    /\ CanRun(c)
    /\ LET Found(path) ==
               /\ cc_path' = [ cc_path EXCEPT ![c] =
                                 [ kind |-> "path", path |-> path,
                                   nodes |-> nodes, built_by |-> cc_built_by,
                                   scored_by |-> cc_scored_by ] ]
               /\ Proceed(c, IF path = << >> THEN "returned" ELSE "convert")
       IN Found(_find_accessible_path(nodes, segments, cc_request[c]))
    /\ UNCHANGED << cc_request, cc_built_by, cc_scored_by, nodes, segments,
                    mapbox_token, re_rest, an_vars, gf_vars, rn_vars, pf_vars, lab_vars >>

\* lines 145-179: route_points = await self._path_to_route_points(path,
\* request), over the nodes of the path, then the metrics and the Route
TaskConverts(c) ==
    /\ cc_pc[c] = "convert"
    /\ CanRun(c)
    /\ cc_path' = [ cc_path EXCEPT ![c] =
                      [ @ EXCEPT !.kind = "points" ] ]
    /\ Proceed(c, "returned")
    /\ UNCHANGED << cc_request, cc_built_by, cc_scored_by, nodes, segments,
                    mapbox_token, re_rest, an_vars, gf_vars, rn_vars, pf_vars, lab_vars >>

ConcurrentNext ==
    \E c \in Tasks :
        \/ TaskBegins(c)
        \/ TaskProvider(c)
        \/ TaskBuilds(c)
        \/ TaskIntegrates(c)
        \/ TaskSearches(c)
        \/ TaskConverts(c)

SpecConcurrent == ConcurrentInit /\ [][ConcurrentNext]_vars

(***************************************************************************)
(* The time one calculate_route call spends waiting for its external       *)
(* calls, in seconds.  The API layer awaits the call under                 *)
(* asyncio.wait_for with a ceiling (api/routes.py, lines 81-85); the       *)
(* Mapbox and the OSRM request run under the timeout of their HTTP client, *)
(* the initialisation of the road network under asyncio.wait_for           *)
(* (road_network_router.py, lines 355-359).  A stage that times out has    *)
(* failed and the call goes on to the next one.                            *)
(***************************************************************************)
\* TIMEOUT_SECONDS of the calculate-route handler
TIMEOUT_SECONDS == 20

\* httpx.AsyncClient(timeout=7.0) of _get_mapbox_routes
MapboxTimeout == 7

\* httpx.AsyncClient(timeout=6.0) of _get_osrm_route
OsrmTimeout == 6

\* asyncio.wait_for(self.initialize_road_network(...), timeout=10.0)
RoadNetworkTimeout == 10

\* the stages that wait for an external call, in the order of calculate_route
ExternalStages == << "mapbox", "osrm", "road_network" >>

StageTimeout(stage) ==
    CASE stage = "mapbox" -> MapboxTimeout
      [] stage = "osrm" -> OsrmTimeout
      [] stage = "road_network" -> RoadNetworkTimeout

\* line 100: the Mapbox stage runs only with a token
StageRuns(stage, token) == stage # "mapbox" \/ token

\* the stage after the given one that the call runs, "internal" after the last
StageAfter(stage) ==
    CASE stage = "mapbox" -> "osrm"
      [] stage = "osrm" -> "road_network"
      [] stage = "road_network" -> "internal"

DeadlineInit ==
    /\ dl_token \in BOOLEAN
    /\ dl_pc = IF dl_token THEN "mapbox" ELSE "osrm"
    /\ dl_waited = 0
    /\ dl_elapsed = 0
    /\ ScorerIdle
    /\ GridHarnessIdle
    /\ EngineIdle
    /\ RoadHarnessIdle
    /\ PathHarnessIdle
    /\ ConcurrentIdle
    /\ ObstaclesIdle
    /\ GeoIdle
    /\ SnapIdle

dl_rest == << an_vars, gf_vars, re_vars, rn_vars, pf_vars, cc_vars, ob_vars,
             geo_vars, sn_vars >>

Waiting == dl_pc \in { "mapbox", "osrm", "road_network" }

\* a second passes while the stage waits for its external call
StageWaits ==
    /\ Waiting
    /\ dl_waited < StageTimeout(dl_pc)
    /\ dl_elapsed < TIMEOUT_SECONDS
    /\ dl_waited' = dl_waited + 1
    /\ dl_elapsed' = dl_elapsed + 1
    /\ UNCHANGED << dl_pc, dl_token, dl_rest >>

\* the external call answers: its route is returned, or the stage has
\* failed and the call goes on
StageAnswers ==
    /\ Waiting
    /\ \E accepted \in BOOLEAN :
         dl_pc' = IF accepted THEN "returned" ELSE StageAfter(dl_pc)
    /\ dl_waited' = 0
    /\ UNCHANGED << dl_token, dl_elapsed, dl_rest >>

\* the timeout of the stage expires: the stage has failed
StageTimesOut ==
    /\ Waiting
    /\ dl_waited = StageTimeout(dl_pc)
    /\ dl_pc' = StageAfter(dl_pc)
    /\ dl_waited' = 0
    /\ UNCHANGED << dl_token, dl_elapsed, dl_rest >>

\* routes.py, lines 83-85: the ceiling expires while the call waits; the
\* call is cancelled and the handler answers 504
CeilingExpires ==
    /\ Waiting
    /\ dl_elapsed = TIMEOUT_SECONDS
    /\ dl_pc' = "timed_out"
    /\ UNCHANGED << dl_token, dl_waited, dl_elapsed, dl_rest >>

\* lines 131-183: the lattice and the grid fallback make no external call
InternalStages ==
    /\ dl_pc = "internal"
    /\ dl_pc' = "returned"
    /\ UNCHANGED << dl_token, dl_waited, dl_elapsed, dl_rest >>

DeadlineNext ==
    \/ StageWaits
    \/ StageAnswers
    \/ StageTimesOut
    \/ CeilingExpires
    \/ InternalStages

SpecDeadline == DeadlineInit /\ [][DeadlineNext]_vars

(***************************************************************************)
(* The ObstacleDetector of the application: obstacles are reported to its  *)
(* store and looked up along a corridor (obstacle_detector.py).            *)
(***************************************************************************)
\* most report_obstacle calls of a run
MaxReports == 95

\* find_obstacles_along_route is called while the store holds at most this
\* many reported obstacles
MaxQueriedReports == 2

\* self.detection_radius, in metres
detection_radius == 400

\* f"obs_{n:03d}"
ObstacleId(n) ==
    "obs_" \o (IF n < 10 THEN "00" ELSE IF n < 100 THEN "0" ELSE "")
           \o ToString(n)

\* the keys of the store
Keys(db) == { db[i].id : i \in DOMAIN db }

\* self.obstacles_db[obstacle_id] = new_obstacle: a key the dict holds
\* keeps its place, a new one goes last
DictSet(db, o) ==
    IF o.id \in Keys(db)
    THEN [ i \in DOMAIN db |-> IF db[i].id = o.id THEN o ELSE db[i] ]
    ELSE Append(db, o)

\* ObstacleDetector.report_obstacle: the id it returns
report_obstacle_id(db) == ObstacleId(Len(db) + 1)

\* ObstacleDetector.report_obstacle: the store it leaves
report_obstacle(db, data) ==
    DictSet(db, [ data EXCEPT !.id = report_obstacle_id(db) ])

\* the obstacle_data of the report endpoint (routes.py, lines 154-166);
\* impact_radius is not among them and becomes 50.0
ReportData ==
    { Obstacle("", 377751, -1224190, "broken_surface", "medium", 50,
               TRUE, FALSE, TRUE),
      Obstacle("", 377800, -1224144, "stairs", "critical", 50,
               TRUE, TRUE, TRUE),
      Obstacle("", 407128, -740060, "narrow_path", "low", 50,
               TRUE, FALSE, TRUE) }

\* start and end of the corridors looked up
CorridorEnds ==
    { << Downtown, Steps >>, << Steps, Downtown >>, << Downtown, Downtown >> }

\* the radius handed over: none (<< >>), or metres
CorridorRadii == { << >>, << 25 >>, << 2000 >> }

ObstaclesInit ==
    /\ ob_db = sample_obstacles
    /\ ob_data \in ReportData
    /\ ob_reports = 0
    /\ ob_returned = << >>
    /\ ob_query = << >>
    /\ ob_found = << >>
    /\ ScorerIdle
    /\ GridHarnessIdle
    /\ EngineIdle
    /\ RoadHarnessIdle
    /\ PathHarnessIdle
    /\ ConcurrentIdle
    /\ DeadlineIdle
    /\ GeoIdle
    /\ SnapIdle

ob_rest == << an_vars, gf_vars, re_vars, rn_vars, pf_vars, cc_vars, dl_vars,
             geo_vars, sn_vars >>

\* await obstacle_detector.report_obstacle(obstacle_data)
ReportObstacle ==
    /\ ob_reports < MaxReports
    /\ ob_returned' = << [ id |-> report_obstacle_id(ob_db),
                           new |-> report_obstacle_id(ob_db) \notin Keys(ob_db) ] >>
    /\ ob_db' = report_obstacle(ob_db, ob_data)
    /\ ob_reports' = ob_reports + 1
    /\ UNCHANGED << ob_data, ob_query, ob_found, ob_rest >>

\* await obstacle_detector.find_obstacles_along_route(start, end, radius)
FindObstaclesAlongRoute ==
    /\ ob_reports <= MaxQueriedReports
    /\ \E ends \in CorridorEnds, r \in CorridorRadii :
         LET Call(radius) ==
                 /\ ob_query' = [ start |-> ends[1], end |-> ends[2],
                                  radius |-> radius, db |-> ob_db ]
                 /\ ob_found' = find_obstacles_along_route(ob_db, ends[1],
                                                           ends[2], radius)
         IN Call(IF r = << >> THEN detection_radius ELSE r[1])
    /\ UNCHANGED << ob_db, ob_data, ob_reports, ob_returned, ob_rest >>

ObstaclesNext == ReportObstacle \/ FindObstaclesAlongRoute

SpecObstacles == ObstaclesInit /\ [][ObstaclesNext]_vars

(***************************************************************************)
(* GeospatialProcessor.simplify_route (geospatial_processor.py), on routes *)
(* of a few points a 1e-4 degree apart, and the distance functions of the  *)
(* engines.  Distances to a line are in centimetres.                       *)
(***************************************************************************)
\* most points of a route that is simplified
MaxSimplified == 4

\* the places of the routes simplified
SimplifiedPlaces ==
    { Coordinates(0, 0), Coordinates(1, 1), Coordinates(2, 2),
      Coordinates(0, 1), Coordinates(0, 2) }

\* the tolerances, in metres
ToleranceSet == { -1, 0, 5, 10 }

\* GeospatialProcessor._point_to_line_distance, in centimetres
_point_to_line_distance(point, line_start, line_end) ==
    LET x0 == point.longitude
        y0 == point.latitude
        x1 == line_start.longitude
        y1 == line_start.latitude
        x2 == line_end.longitude
        y2 == line_end.latitude
        numerator ==
            Abs((y2 - y1) * x0 - (x2 - x1) * y0 + x2 * y1 - y2 * x1)
        squares == (y2 - y1) * (y2 - y1) + (x2 - x1) * (x2 - x1)
    IN IF squares = 0
       THEN 100 * calculate_distance(y0, x0, y1, x1)
       ELSE (numerator * 111320) \div ISqrt(squares * 10000)

\* the loop of _douglas_peucker from index i (of Python) on: max_distance
\* and max_index
RECURSIVE FarthestScan(_, _, _)
FarthestScan(points, i, best) ==
    IF i > Len(points) - 2 THEN best
    ELSE LET Next_(distance) ==
                 IF distance > best.max_distance
                 THEN [ max_distance |-> distance, max_index |-> i ]
                 ELSE best
         IN FarthestScan(points, i + 1,
               Next_(_point_to_line_distance(points[i + 1], points[1],
                                             points[Len(points)])))

\* left_points[:-1] + right_points, or the error of the call that raised
Combined(left, right) ==
    IF left.kind = "raised" THEN left
    ELSE IF right.kind = "raised" THEN right
    ELSE [ kind |-> "points",
           points |-> SubSeq(left.points, 1, Len(left.points) - 1)
                      \o right.points ]

\* GeospatialProcessor._douglas_peucker.  With max_index 0 the right part
\* points[max_index:] is the list itself: the recursion does not end and
\* Python raises RecursionError.
RECURSIVE _douglas_peucker(_, _)
_douglas_peucker(points, tolerance) ==
    IF Len(points) < 3 THEN [ kind |-> "points", points |-> points ]
    ELSE LET Split(far) ==
                 IF far.max_distance > 100 * tolerance
                 THEN IF far.max_index = 0 THEN Raised("RecursionError")
                      ELSE Combined(
                             _douglas_peucker(
                                SubSeq(points, 1, far.max_index + 1), tolerance),
                             _douglas_peucker(
                                SubSeq(points, far.max_index + 1, Len(points)),
                                tolerance))
                 ELSE [ kind |-> "points",
                        points |-> << points[1], points[Len(points)] >> ]
         IN Split(FarthestScan(points, 1,
                               [ max_distance |-> 0, max_index |-> 0 ]))

\* GeospatialProcessor.simplify_route
simplify_route(route_points, tolerance) ==
    IF Len(route_points) < 3
    THEN [ kind |-> "points", points |-> route_points ]
    ELSE _douglas_peucker(route_points, tolerance)

geo_rest == << an_vars, gf_vars, re_vars, rn_vars, pf_vars, cc_vars, dl_vars,
               ob_vars, sn_vars >>

OthersIdleOfGeo ==
    /\ ScorerIdle
    /\ GridHarnessIdle
    /\ EngineIdle
    /\ RoadHarnessIdle
    /\ PathHarnessIdle
    /\ ConcurrentIdle
    /\ DeadlineIdle
    /\ ObstaclesIdle
    /\ SnapIdle

SimplifyInit ==
    /\ geo_points = << >>
    /\ geo_tolerance \in ToleranceSet
    /\ geo_once = NoResult
    /\ geo_twice = NoResult
    /\ geo_measure = NoResult
    /\ OthersIdleOfGeo

\* the caller puts one more point on the route
AddRoutePoint ==
    /\ geo_once = NoResult
    /\ Len(geo_points) < MaxSimplified
    /\ \E place \in SimplifiedPlaces : geo_points' = Append(geo_points, place)
    /\ UNCHANGED << geo_tolerance, geo_once, geo_twice, geo_measure, geo_rest >>

\* simplify_route(route_points, tolerance)
SimplifyRoute ==
    /\ geo_once = NoResult
    /\ geo_once' = simplify_route(geo_points, geo_tolerance)
    /\ UNCHANGED << geo_points, geo_tolerance, geo_twice, geo_measure, geo_rest >>

\* simplify_route(simplified, tolerance) on what the first call returned
SimplifyAgain ==
    /\ geo_once # NoResult
    /\ geo_once.kind = "points"
    /\ geo_twice = NoResult
    /\ geo_twice' = simplify_route(geo_once.points, geo_tolerance)
    /\ UNCHANGED << geo_points, geo_tolerance, geo_once, geo_measure, geo_rest >>

SimplifyNext == AddRoutePoint \/ SimplifyRoute \/ SimplifyAgain

SpecSimplify == SimplifyInit /\ [][SimplifyNext]_vars

\* the classes with a Haversine distance method
DistanceOwners ==
    { "GeospatialProcessor", "AdvancedRoutingEngine", "RoadSegment",
      "MapboxRoutingEngine", "OsrmRoutingEngine", "RoadNetworkRouter",
      "GridRoutingEngine", "AccessibilityAnalyzer", "ObstacleDetector" }

\* the places distances are measured between
MeasuredPlaces ==
    { Downtown, Uptown, Steps, Coordinates(407128, -740060),
      Coordinates(0, 0) }

\* calculate_distance / _calculate_distance / _distance of the class: the
\* same Haversine body in each, but for `dlon = lat2 - lon1` in
\* MapboxRoutingEngine
DistanceOf(owner, a, b) ==
    IF owner = "MapboxRoutingEngine"
    THEN Mapbox_calculate_distance(a.latitude, a.longitude,
                                   b.latitude, b.longitude)
    ELSE calculate_distance(a.latitude, a.longitude, b.latitude, b.longitude)

DistanceInit ==
    /\ geo_points = << >>
    /\ geo_tolerance = 0
    /\ geo_once = NoResult
    /\ geo_twice = NoResult
    /\ geo_measure = NoResult
    /\ OthersIdleOfGeo

\* the distance method of a class is called on a pair of places, on the
\* pair the other way round, and on the first place twice
MeasureDistance ==
    /\ \E owner \in DistanceOwners, a \in MeasuredPlaces, b \in MeasuredPlaces :
         geo_measure' = [ kind |-> "measured", owner |-> owner, a |-> a, b |-> b,
                          forth |-> DistanceOf(owner, a, b),
                          back |-> DistanceOf(owner, b, a),
                          same |-> DistanceOf(owner, a, a) ]
    /\ UNCHANGED << geo_points, geo_tolerance, geo_once, geo_twice, geo_rest >>

DistanceNext == MeasureDistance

SpecDistance == DistanceInit /\ [][DistanceNext]_vars

(***************************************************************************)
(* _find_nearest_node of the AdvancedRoutingEngine, on a lattice it built, *)
(* and of the RoadNetworkRouter, on a road network it initialised, for     *)
(* coordinates at growing distances from the nodes.                        *)
(***************************************************************************)
\* steps of 0.003 degrees north and 0.004 degrees east of Downtown
MaxSteps == 9

SnapPlaces ==
    { Coordinates(Downtown.latitude + k * 30, Downtown.longitude) : k \in 0..MaxSteps }
    \cup { Coordinates(Downtown.latitude, Downtown.longitude + k * 40) : k \in 1..MaxSteps }

\* self.nodes of an engine: none before the first _build_road_network, then
\* the lattice of a request
LatticesSnapped ==
    { << >> }
    \cup { _build_road_network_nodes(r.start, r.end) \o << >> : r \in RequestSet }

\* self.nodes of a router after initialize_road_network
RoadNetworksSnapped ==
    { _build_road_graph(data).nodes \o << >> :
        data \in { OsmNothing,
                   OsmStreet(RouteRequest(Downtown, Uptown, "medium",
                                          DefaultPreferences)),
                   _create_fallback_road_network(Downtown.latitude,
                                                 Downtown.longitude) } }

SnapInit ==
    /\ sn_owner \in { "AdvancedRoutingEngine", "RoadNetworkRouter" }
    /\ sn_nodes \in IF sn_owner = "AdvancedRoutingEngine"
                     THEN LatticesSnapped ELSE RoadNetworksSnapped
    /\ sn_found = NoResult
    /\ ScorerIdle
    /\ GridHarnessIdle
    /\ EngineIdle
    /\ RoadHarnessIdle
    /\ PathHarnessIdle
    /\ ConcurrentIdle
    /\ DeadlineIdle
    /\ ObstaclesIdle
    /\ GeoIdle

\* self._find_nearest_node(lat, lon)
FindNearestNode ==
    /\ \E place \in SnapPlaces :
         sn_found' =
           [ kind |-> "looked up", place |-> place,
             node |-> IF sn_owner = "AdvancedRoutingEngine"
                      THEN _find_nearest_node(sn_nodes, place.latitude,
                                              place.longitude)
                      ELSE Road_find_nearest_node(sn_nodes, place.latitude,
                                                  place.longitude) ]
    /\ UNCHANGED << sn_owner, sn_nodes, an_vars, gf_vars, re_vars, rn_vars,
                    pf_vars, cc_vars, dl_vars, ob_vars, geo_vars >>

SnapNext == FindNearestNode

SpecSnap == SnapInit /\ [][SnapNext]_vars

(***************************************************************************)
(* Properties of the scorer                                                *)
(***************************************************************************)
\* C8: calculate_comprehensive_score returns an AccessibilityScore (it does
\* not raise) and the overall score and each of the seven sub-scores lie in
\* [0, 1], whatever points, preferences and obstacles it is given.
C8_ScoreInUnitInterval ==
    an_result # NoResult =>
        /\ an_result.kind = "score"
        /\ \A f \in SubScores \cup {"overall_score"} :
             0 <= an_result.score[f] /\ an_result.score[f] <= 1000

\* C8 case: a score was returned for a route whose surface penalties
\* exceed the base score (clamped to 0) and whose obstacle penalty hit its cap
C8_Witness ==
    /\ an_result.kind = "score"
    /\ Len(an_obstacles) = 3
    /\ an_result.score.surface_quality = 0
    /\ an_result.score.obstacle_avoidance = 200

\* sum of the seven weights, in hundredths
WeightTotal ==
    scoring_weights.surface_quality + scoring_weights.slope_accessibility
    + scoring_weights.obstacle_avoidance + scoring_weights.width_adequacy
    + scoring_weights.safety_rating + scoring_weights.lighting_adequacy
    + scoring_weights.traffic_safety

\* sum of returned (rounded) sub-score times weight, in 1e-5
ReturnedWeightedSum(score) ==
    score.surface_quality * scoring_weights.surface_quality
    + score.slope_accessibility * scoring_weights.slope_accessibility
    + score.obstacle_avoidance * scoring_weights.obstacle_avoidance
    + score.width_adequacy * scoring_weights.width_adequacy
    + score.safety_rating * scoring_weights.safety_rating
    + score.lighting_adequacy * scoring_weights.lighting_adequacy
    + score.traffic_safety * scoring_weights.traffic_safety

\* C9: the seven weights sum to exactly 1.00, and the returned
\* overall_score equals the sum of returned sub-score times weight to
\* within 0.001.
C9_OverallIsWeightedSum ==
    /\ WeightTotal = 100
    /\ an_result.kind = "score" =>
         Abs(an_result.score.overall_score * 100
             - ReturnedWeightedSum(an_result.score)) <= 100

\* C9 case: a score was returned whose sub-scores were changed by the
\* rounding, so that the overall score is not the exact weighted sum
C9_Witness ==
    /\ an_result.kind = "score"
    /\ Len(an_points) >= 2
    /\ an_result.score.overall_score * 100
         # ReturnedWeightedSum(an_result.score)

(***************************************************************************)
(* Properties of the grid-aligned generator                                *)
(***************************************************************************)
\* C10: for every pair of valid start and end coordinates,
\* _generate_grid_aligned_points returns at least 2 points, consecutive
\* points differ in latitude only or in longitude only, and
\* distance_from_start never decreases along the list.
C10_GridPointsAxisAligned ==
    gf_result # NoResult =>
        /\ gf_result.kind = "points"
        /\ Len(gf_result.points) >= 2
        /\ \A k \in 1..(Len(gf_result.points) - 1) :
             /\ \/ gf_result.points[k].latitude = gf_result.points[k + 1].latitude
                \/ gf_result.points[k].longitude = gf_result.points[k + 1].longitude
             /\ gf_result.points[k].distance_from_start
                  <= gf_result.points[k + 1].distance_from_start

(***************************************************************************)
(* Properties of calculate_route                                           *)
(***************************************************************************)
\* the stage whose outcome calculate_route handed to its caller
LastAttempt == attempted[Len(attempted)]

\* every provider request made in this call failed or timed out
ProvidersAllFailed ==
    \A k \in DOMAIN attempted :
        attempted[k].stage # "lattice" =>
            attempted[k].answer \in { "failed", "init_failed" }

\* C1: calculate_route returns a Route and raises nothing to its caller for
\* every valid request, whichever of the earlier stages fail, raise or are
\* rejected: the grid fallback is then reached and itself returns a route.
C1_ReturnsRouteNeverRaises ==
    pc = "returned" => result.kind = "route"

\* C2: when Mapbox, OSRM and Overpass all fail or time out, calculate_route
\* still returns a route with a non-empty point list whose routing_engine
\* names the grid-fallback stage.
C2_AllProvidersFailGridFallback ==
    (pc = "returned" /\ ProvidersAllFailed) =>
        /\ result.kind = "route"
        /\ result.route.points # << >>
        /\ result.route.routing_engine = "grid_aligned_fallback"

\* C3: with a Mapbox token configured, a failed Mapbox Directions request
\* (exception, timeout, non-200, empty route list) only advances the chain:
\* stage 1 returns no route and the OSRM stage is attempted next.
C3_MapboxFailureAdvancesToOsrm ==
    \A k \in DOMAIN attempted :
        (attempted[k].stage = "mapbox"
           /\ attempted[k].answer \in { "failed", "no_routes" }) =>
            /\ ~attempted[k].accepted
            /\ IF k = Len(attempted) THEN pc = "osrm"
               ELSE attempted[k + 1].stage = "osrm"

\* C4: the road-network stage is accepted only when its graph search found
\* a path between the snapped nodes (the "road_network" route); otherwise
\* the stage is rejected and the lattice stage runs.
C4_RoadNetworkAcceptedOnlyWithPath ==
    \A k \in DOMAIN attempted :
        attempted[k].stage = "road_network" =>
            IF attempted[k].engine = "road_network" /\ attempted[k].points > 2
            THEN attempted[k].accepted
            ELSE /\ ~attempted[k].accepted
                 /\ IF k = Len(attempted) THEN pc = "lattice"
                    ELSE attempted[k + 1].stage = "lattice"

\* C5: calculate_route never returns a result of the Mapbox stage or of the
\* OSRM stage that has 2 or fewer points: such a result, and a None or empty
\* one, is a stage failure and the next stage is attempted.
C5_ProviderRouteHasMoreThanTwoPoints ==
    \A k \in DOMAIN attempted :
        attempted[k].stage \in { "mapbox", "osrm" } =>
            IF attempted[k].outcome = "route" /\ attempted[k].points > 2
            THEN /\ k = Len(attempted)
                 /\ pc = "returned"
                 /\ Len(result.route.points) > 2
            ELSE LET next == IF attempted[k].stage = "mapbox" THEN "osrm"
                             ELSE "road_network"
                 IN IF k = Len(attempted) THEN pc = next
                    ELSE attempted[k + 1].stage = next

\* C5 case: the Mapbox stage came back with a 2-point route, which was
\* turned down, and the call went on to the OSRM stage
C5_Witness ==
    /\ Len(attempted) >= 2
    /\ attempted[1].stage = "mapbox"
    /\ attempted[1].outcome = "route"
    /\ attempted[1].points = 2
    /\ attempted[2].stage = "osrm"

\* C6: after a call returned a route, a second call with a request of the
\* same cache key is answered from route_cache without running any routing
\* stage, and the two routes have different route_id values.
C6_SecondCallAnsweredFromCache ==
    ( /\ pc = "returned"
      /\ previous # NoResult
      /\ previous.outcome = "route"
      /\ _generate_cache_key(previous.request) = _generate_cache_key(request) ) =>
        /\ attempted = << >>
        /\ result.kind = "route"
        /\ result.route.route_id # previous.route_id

\* C7: every Route returned by calculate_route has at least 2 points, also
\* when start and end coincide or snap to the same lattice node.
C7_RouteHasAtLeastTwoPoints ==
    (pc = "returned" /\ result.kind = "route") =>
        Len(result.route.points) >= 2

\* the axis of the first leg of a waypoint list: from its first waypoint
\* to its second
FirstLeg(waypoints) ==
    IF waypoints[1].lat # waypoints[2].lat /\ waypoints[1].lon = waypoints[2].lon
    THEN "vertical"
    ELSE IF waypoints[1].lat = waypoints[2].lat /\ waypoints[1].lon # waypoints[2].lon
    THEN "horizontal"
    ELSE IF waypoints[1].lat = waypoints[2].lat THEN "none" ELSE "diagonal"

\* the places of a waypoint list that are neither the start nor the
\* destination of the request
TurnPlaces(waypoints, route_request) ==
    { << waypoints[k].lat, waypoints[k].lon >> : k \in 1..Len(waypoints) }
      \ { << route_request.start.latitude, route_request.start.longitude >>,
          << route_request.end.latitude, route_request.end.longitude >> }

CorridorObstacles(r) ==
    find_obstacles_along_route(sample_obstacles, r.start, r.end, 200)

HasCritical(obstacles) ==
    \E k \in DOMAIN obstacles : obstacles[k].severity = "critical"

\* one of the warnings the engines give for a critical obstacle
HasCriticalWarning(warnings) ==
    \E k \in DOMAIN warnings :
        warnings[k] \in { "Critical accessibility barriers detected",
                          "Critical barriers detected" }

\* C12: whenever the obstacle corridor of a request contains an obstacle of
\* critical severity, the route calculate_route returns carries the warning
\* about critical barriers, whichever stage produced the route.
C12_CriticalObstacleWarned ==
    (pc = "returned" /\ result.kind = "route"
       /\ HasCritical(CorridorObstacles(request)))
    => HasCriticalWarning(result.route.warnings)

(***************************************************************************)
(* Properties of the obstacle and slope sub-scores                         *)
(***************************************************************************)
\* the base penalty of the severity of an obstacle, in millionths
SeverityPenalty(o) ==
    CASE o.severity = "critical" -> 500000
      [] o.severity = "high"     -> 300000
      [] o.severity = "medium"   -> 150000
      [] o.severity = "low"      -> 50000

\* the type of the obstacle matches an avoidance preference
MatchesAvoidance(o, preferences) ==
    \/ o.type = "stairs" /\ preferences.avoid_stairs
    \/ o.type = "construction" /\ preferences.avoid_construction
    \/ o.type = "steep_slope" /\ preferences.avoid_steep_slopes

\* the mobility aid of the user is affected by the obstacle
AidAffected(o, preferences) ==
    \/ preferences.mobility_aid = "wheelchair" /\ o.affects_wheelchair
    \/ preferences.mobility_aid \in {"walker", "cane"} /\ o.affects_mobility_aid

\* C13: the factor by which _analyze_obstacle_avoidance amplifies the base
\* severity penalty of one obstacle is 1 when neither its type matches an
\* avoidance preference nor the mobility aid of the user is affected, and
\* lies between 1.3 and 1.5 otherwise.
C13_AmplificationBetween ==
    an_result.kind = "score" =>
        \A k \in DOMAIN an_obstacles :
            LET Within(o, base, penalty) ==
                    IF MatchesAvoidance(o, an_preferences)
                       \/ AidAffected(o, an_preferences)
                    THEN 13 * base <= 10 * penalty /\ 10 * penalty <= 15 * base
                    ELSE penalty = base
            IN Within(an_obstacles[k], SeverityPenalty(an_obstacles[k]),
                      ObstaclePenalty(an_obstacles[k], an_preferences))

\* the list without its k-th obstacle
WithoutObstacle(obstacles, k) ==
    SubSeq(obstacles, 1, k - 1) \o SubSeq(obstacles, k + 1, Len(obstacles))

\* C14: for fixed preferences, a list of obstacles never has a higher
\* obstacle_avoidance than the list without one of its obstacles, and has a
\* strictly lower one whenever the penalty accumulated by the other
\* obstacles is below the cap of 0.8 (in particular when there are no
\* others, where the score without is 1.0).
C14_ObstacleLowersAvoidance ==
    an_result.kind = "score" =>
        \A k \in DOMAIN an_obstacles :
            LET Lowered(with, without, accumulated) ==
                    /\ with <= without
                    /\ accumulated < 800000 => with < without
                    /\ Len(an_obstacles) = 1 => without = One
            IN Lowered(_analyze_obstacle_avoidance(an_obstacles, an_preferences),
                       _analyze_obstacle_avoidance(
                           WithoutObstacle(an_obstacles, k), an_preferences),
                       TotalObstaclePenalty(WithoutObstacle(an_obstacles, k),
                                            an_preferences))

\* three obstacles have been scored: the first two stay below the cap and
\* the third lowers the score, and the last two reach the cap
C14_Witness ==
    /\ an_result.kind = "score"
    /\ Len(an_obstacles) = 3
    /\ TotalObstaclePenalty(WithoutObstacle(an_obstacles, 3), an_preferences)
         < 800000
    /\ TotalObstaclePenalty(WithoutObstacle(an_obstacles, 1), an_preferences)
         >= 800000
    /\ _analyze_obstacle_avoidance(an_obstacles, an_preferences)
         < _analyze_obstacle_avoidance(WithoutObstacle(an_obstacles, 3),
                                       an_preferences)

\* slope% = |elevation change| / segment distance x 100 of the segment
\* ending at point i, in 1e-4 percent; 0 where an elevation is not known
SlopePercentage(route_points, i) ==
    LET Sloped(change, distance) ==
            IF distance > 0 THEN (change * 1000000) \div distance ELSE 0
    IN IF route_points[i - 1].elevation = <<>> \/ route_points[i].elevation = <<>>
       THEN 0
       ELSE Sloped(Abs(route_points[i].elevation[1]
                       - route_points[i - 1].elevation[1]),
                   calculate_distance(route_points[i - 1].latitude,
                                      route_points[i - 1].longitude,
                                      route_points[i].latitude,
                                      route_points[i].longitude))

NodeRecords(road_data) ==
    { road_data.nodes[k].id : k \in DOMAIN road_data.nodes }

\* the graph has an edge between the nodes built for the ids a and b
EdgeJoins(graph, a, b) ==
    \E e \in graph.edges : { e.from_node, e.to_node } = { Str(a), Str(b) }

\* C16: for every way of the fetched data and every pair of consecutive
\* node ids of it whose node records are both in the data, the graph
\* _build_road_graph built has an edge between the two nodes.
C16_ConsecutiveNodesJoined ==
    (rn_pc = "initialized" /\ rn_overpass.kind = "ok") =>
        \A w \in DOMAIN rn_road_data.ways :
            \A i \in 1..(Len(rn_road_data.ways[w].nodes) - 1) :
                ( /\ rn_road_data.ways[w].nodes[i] \in NodeRecords(rn_road_data)
                  /\ rn_road_data.ways[w].nodes[i + 1] \in NodeRecords(rn_road_data) )
                => EdgeJoins(rn_graph, rn_road_data.ways[w].nodes[i],
                             rn_road_data.ways[w].nodes[i + 1])

\* the fetch of the road data did not succeed: the request failed, or
\* answered without elements
FetchUnsuccessful(overpass) ==
    \/ overpass.kind = "failed"
    \/ overpass.kind = "ok" /\ overpass.data.nodes = << >>
                            /\ overpass.data.ways = << >>

\* C17: whenever the fetch of the road data does not succeed, the router
\* builds its graph from the synthetic lattice around the centre.
C17_UnsuccessfulFetchUsesLattice ==
    (rn_pc = "initialized" /\ FetchUnsuccessful(rn_overpass)) =>
        LET FromLattice(lattice) ==
                /\ rn_road_data = lattice
                /\ Len(rn_graph.nodes) = Len(lattice.nodes)
        IN FromLattice(_create_fallback_road_network(
               (rn_request.start.latitude + rn_request.end.latitude) \div 2,
               (rn_request.start.longitude + rn_request.end.longitude) \div 2))

(***************************************************************************)
(* Properties of the lattice: its scoring and its search                   *)
(***************************************************************************)
\* the nodes of the lattice within the impact radius of an obstacle
NodesWithinImpact(lattice, o) ==
    { k \in DOMAIN lattice :
        calculate_distance(lattice[k].lat, lattice[k].lon,
                           o.latitude, o.longitude) < o.impact_radius }

\* C19: a segment of the lattice has received the penalty of an obstacle
\* when the obstacle lies within its impact_radius of either endpoint of
\* the segment, from_node or to_node.
C19_PenaltyFromEitherEndpoint ==
    (pf_pc = "find" /\ pf_penalized = 0) =>
        \A o \in { sample_obstacles[k] : k \in DOMAIN sample_obstacles } :
            \A n \in SegmentsAt(pf_segments,
                                 NodesWithinImpact(pf_nodes, o)) :
                pf_segments[n].accessibility_score
                    <= Max2(100000,
                            One - _calculate_obstacle_penalty(o,
                                      pf_request.preferences))

\* the cost _find_accessible_path gives a segment: distance plus
\* (1 - accessibility_score) x 1000
SegmentCost(segment) ==
    segment.distance + ((One - segment.accessibility_score) \div 1000)

\* the segments from node a to node b
SegmentsFromTo(lattice_segments, a, b) ==
    { n \in { Connections(a)[c] : c \in DOMAIN Connections(a) } :
        lattice_segments[n].to_node = b }

\* every node of the path is joined to the next by a segment
PathConnected(lattice_segments, path) ==
    \A i \in 1..(Len(path) - 1) :
        SegmentsFromTo(lattice_segments, path[i], path[i + 1]) # {}

\* the total cost of the path from its i-th node on
RECURSIVE PathCost(_, _, _)
PathCost(lattice_segments, path, i) ==
    IF i >= Len(path) THEN 0
    ELSE SegmentCost(lattice_segments[
             CHOOSE n \in SegmentsFromTo(lattice_segments, path[i], path[i + 1]) :
                 TRUE])
         + PathCost(lattice_segments, path, i + 1)

\* most segments of the paths a returned path is compared with
MaxPathEdges == 16

\* the cost given to a node no path reaches
Unreached == 1000 * One

\* for every node, the cost of the cheapest path of at most n segments
\* from the source to it
RECURSIVE LatticeCheapest(_, _, _)
LatticeCheapest(lattice_segments, source, n) ==
    LET Through(k, m, before) ==
            IF before[m] = Unreached THEN Unreached
            ELSE before[m]
                 + SegmentCost(lattice_segments[
                       CHOOSE c \in SegmentsFromTo(lattice_segments, m, k) : TRUE])
        Cheaper(k, before) ==
            { before[k] }
            \cup { Through(k, lattice_segments[Connections(k)[c]].to_node, before) :
                     c \in DOMAIN Connections(k) }
        Least(costs) == CHOOSE x \in costs : \A y \in costs : x <= y
        \* (as a sequence, so that the costs of a round are worked out once)
        Round(before) ==
            [ k \in NodeIds |-> Least(Cheaper(k, before)) ] \o << >>
    IN IF n = 0
       THEN [ k \in NodeIds |-> IF k = source THEN 0 ELSE Unreached ]
       ELSE Round(LatticeCheapest(lattice_segments, source, n - 1))

\* the path goes along segment n
Traverses(lattice_segments, path, n) ==
    \E i \in 1..(Len(path) - 1) :
        /\ path[i] = lattice_segments[n].from_node
        /\ path[i + 1] = lattice_segments[n].to_node

\* the lattice with every accessibility_score at 1.0, where the cost of a
\* path is its length, and the same without segment n
Unpenalized(lattice_segments) ==
    [ n \in DOMAIN lattice_segments |->
        [ lattice_segments[n] EXCEPT !.accessibility_score = One ] ]

WithoutSegment(lattice_segments, n) ==
    [ lattice_segments EXCEPT ![n].distance = Unreached ]

\* between the two nodes a shortest path exists that does not go along
\* segment n
EqualLengthAlternative(lattice_segments, n, a, b) ==
    LatticeCheapest(WithoutSegment(Unpenalized(lattice_segments), n),
                    a, MaxPathEdges)[b]
      = LatticeCheapest(Unpenalized(lattice_segments), a, MaxPathEdges)[b]

\* C18: a path _find_accessible_path returns is a connected sequence of
\* segments from the node the start snaps to to the node the end snaps to,
\* no path between the two nodes has a lower total cost (the sum over the
\* segments of distance + (1 - accessibility_score) x 1000), and on a
\* lattice with one penalized segment it does not go along that segment
\* when a path of equal length exists that avoids it.
C18_PathConnectedAndCheapest ==
    (pf_pc = "done" /\ pf_path.kind = "path" /\ pf_path.path # << >>) =>
        LET Cheapest_(path, start_node, end_node) ==
                /\ path[1] = start_node[1]
                /\ path[Len(path)] = end_node[1]
                /\ PathConnected(pf_segments, path)
                /\ PathCost(pf_segments, path, 1)
                     <= LatticeCheapest(pf_segments, start_node[1],
                                        MaxPathEdges)[end_node[1]]
                /\ ( /\ pf_penalized # 0
                     /\ EqualLengthAlternative(pf_segments, pf_penalized,
                                               start_node[1], end_node[1]) )
                   => ~Traverses(pf_segments, path, pf_penalized)
        IN Cheapest_(pf_path.path[1],
                     _find_nearest_node(pf_nodes, pf_request.start.latitude,
                                        pf_request.start.longitude),
                     _find_nearest_node(pf_nodes, pf_request.end.latitude,
                                        pf_request.end.longitude))

\* a path of several segments has been found on a lattice whose one
\* penalized segment a shortest path can avoid, and the path avoids it
C18_Witness ==
    /\ pf_pc = "done"
    /\ pf_path.kind = "path"
    /\ pf_path.path # << >>
    /\ pf_penalized # 0
    /\ Len(pf_path.path[1]) >= 3
    /\ pf_segments[pf_penalized].from_node = pf_path.path[1][1]
    /\ EqualLengthAlternative(pf_segments, pf_penalized, pf_path.path[1][1],
                              pf_path.path[1][Len(pf_path.path[1])])
    /\ ~Traverses(pf_segments, pf_path.path[1], pf_penalized)
    /\ PathCost(pf_segments, pf_path.path[1], 1) > 0

(***************************************************************************)
(* Properties of concurrent calls                                          *)
(***************************************************************************)
\* the lattice _build_road_network builds for the request of call c
OwnLattice(c) ==
    _build_road_network_nodes(cc_request[c].start, cc_request[c].end)

\* C20: with several calculate_route calls under way on the one engine,
\* from the _build_road_network of a call to the end of its path
\* conversion self.nodes and self.segments are the ones built, and then
\* scored, by that call for its own start and end, and so are the sets it
\* searched and converted: no other call cleared or replaced them.
C20_CallSearchesItsOwnLattice ==
    \A c \in DOMAIN cc_pc :
        /\ cc_pc[c] \in { "integrate", "find", "convert" } =>
              /\ cc_built_by = c
              /\ nodes = OwnLattice(c)
        /\ cc_pc[c] \in { "find", "convert" } => cc_scored_by = c
        /\ cc_path[c] # NoResult =>
              /\ cc_path[c].built_by = c
              /\ cc_path[c].scored_by = c
              /\ cc_path[c].nodes = OwnLattice(c)

\* call 1 stands before its path conversion with the path it found on the
\* lattice it built, while call 2, for another request, is suspended in
\* its road-network stage and builds its lattice next
C20_Witness ==
    /\ cc_pc # << >>
    /\ cc_pc[1] = "convert"
    /\ cc_pc[2] = "road_network"
    /\ cc_request[1] # cc_request[2]
    /\ cc_path[1].kind = "path"
    /\ cc_path[1].path # << >>
    /\ cc_built_by = 1

(***************************************************************************)
(* Properties of the stage timeouts                                        *)
(***************************************************************************)
\* the timeouts of the external stages a call has run when it waits in the
\* given stage, added up
RECURSIVE TimeoutsThrough(_, _, _)
TimeoutsThrough(k, stage, token) ==
    LET here == IF StageRuns(ExternalStages[k], token)
                THEN StageTimeout(ExternalStages[k]) ELSE 0
    IN IF ExternalStages[k] = stage THEN here
       ELSE here + TimeoutsThrough(k + 1, stage, token)

\* C21: the timeouts that bound the external calls of the stages a call
\* has come to (Mapbox request, OSRM request, road-network initialisation)
\* add up to less than the ceiling of the API layer, and the ceiling never
\* expires on a call that waits for them.
C21_StageTimeoutsBelowCeiling ==
    /\ Waiting => TimeoutsThrough(1, dl_pc, dl_token) < TIMEOUT_SECONDS
    /\ dl_pc # "timed_out"

(***************************************************************************)
(* Properties of the obstacle store                                        *)
(***************************************************************************)
\* metres between two places
MetresBetween(a, b) ==
    calculate_distance(a.latitude, a.longitude, b.latitude, b.longitude)

\* the k-th of the eleven points sampled on the line from start to end,
\* k in 0..10
SampledPoint(q, k) ==
    Coordinates(q.start.latitude + ((q.end.latitude - q.start.latitude) * k) \div 10,
                q.start.longitude + ((q.end.longitude - q.start.longitude) * k) \div 10)

\* the stored obstacles within the radius of a sampled point
StoredInCorridor(db, q) ==
    { o \in { db[i] : i \in DOMAIN db } :
        \E k \in 0..10 : MetresBetween(SampledPoint(q, k), o) <= q.radius }

\* the answer is in the order of severity, then of distance from start
InSeverityThenDistanceOrder(found, start) ==
    \A i, j \in DOMAIN found :
        i < j =>
          \/ SeverityRank(found[i].severity) < SeverityRank(found[j].severity)
          \/ /\ found[i].severity = found[j].severity
             /\ MetresBetween(start, found[i]) <= MetresBetween(start, found[j])

\* C22: find_obstacles_along_route(start, end, radius) returns exactly the
\* stored obstacles within radius of at least one of the points sampled on
\* the line from start to end, each once, critical before high before
\* medium before low and, of one severity, nearer to start first.
C22_CorridorObstaclesSorted ==
    ob_query # << >> =>
        /\ { ob_found[i] : i \in DOMAIN ob_found } = StoredInCorridor(ob_query.db, ob_query)
        /\ \A i, j \in DOMAIN ob_found : ob_found[i].id = ob_found[j].id => i = j
        /\ InSeverityThenDistanceOrder(ob_found, ob_query.start)

\* a lookup that found obstacles of several severities, two of one
\* severity at different distances from start that the store holds in the
\* other order, and left a stored obstacle out
C22_Witness ==
    /\ ob_query # << >>
    /\ \E i, j \in DOMAIN ob_found : ob_found[i].severity # ob_found[j].severity
    /\ \E i \in DOMAIN ob_found : \E j \in DOMAIN ob_found :
          /\ i < j
          /\ ob_found[i].severity = ob_found[j].severity
          /\ MetresBetween(ob_query.start, ob_found[i])
               < MetresBetween(ob_query.start, ob_found[j])
          /\ \E a, b \in DOMAIN ob_query.db :
                /\ a < b
                /\ ob_query.db[a] = ob_found[j]
                /\ ob_query.db[b] = ob_found[i]
    /\ Len(ob_found) < Len(ob_query.db)

\* C29: after any number of report_obstacle calls on the sample store,
\* every call returned an id that was no key of the store before it: the
\* store has one entry more per report and holds every sample obstacle
\* as it was.
C29_ReportsNeverOverwrite ==
    /\ ob_returned # << >> => ob_returned[1].new
    /\ ob_db # << >> =>
          /\ Len(ob_db) = Len(sample_obstacles) + ob_reports
          /\ \A i \in DOMAIN sample_obstacles : ob_db[i] = sample_obstacles[i]

(***************************************************************************)
(* Properties of the GeospatialProcessor and of the distance functions     *)
(***************************************************************************)
\* C23: simplify_route is idempotent: for every point list and tolerance
\* the call returns a list, and simplifying that list again with the same
\* tolerance returns the same list.
C23_SimplifyIdempotent ==
    /\ geo_once # NoResult => geo_once.kind = "points"
    /\ geo_twice # NoResult => geo_twice = geo_once

\* C24: every Haversine distance function of the routing stages returns 0
\* for two identical points and the same value for (a, b) as for (b, a).
C24_DistanceZeroAndSymmetric ==
    geo_measure # NoResult =>
        /\ geo_measure.same = 0
        /\ geo_measure.forth = geo_measure.back

(***************************************************************************)
(* Properties of the snapping to the nearest node                          *)
(***************************************************************************)
\* the snap radius of the class, in metres
SnapRadius(owner) ==
    IF owner = "AdvancedRoutingEngine" THEN 1000 ELSE 500

\* metres from the place to node k
MetresToNode(graph_nodes, place, k) ==
    calculate_distance(place.latitude, place.longitude,
                       graph_nodes[k].lat, graph_nodes[k].lon)

\* node k is a nearest node of the place
IsNearest(graph_nodes, place, k) ==
    \A m \in DOMAIN graph_nodes :
        MetresToNode(graph_nodes, place, k) <= MetresToNode(graph_nodes, place, m)

\* The distance does not exceed the radius.  Distances are whole metres,
\* rounded down, of a product 6371000 * c that is never the radius itself
\* (no double c gives 1000.0 or 500.0), so the distance does not exceed the
\* radius exactly when its whole metres are below it.
WithinRadius(metres, radius) == metres < radius

\* C25: _find_nearest_node returns the graph node nearest to the
\* coordinate whenever the distance of that node does not exceed the snap
\* radius (1000 m on the lattice, 500 m on the road network), and returns
\* None only when that distance exceeds the radius or the graph has no
\* nodes.
C25_NearestNodeWithinRadius ==
    sn_found # NoResult =>
        LET Nearest == { k \in DOMAIN sn_nodes :
                           IsNearest(sn_nodes, sn_found.place, k) }
            Reachable == { k \in Nearest :
                             WithinRadius(MetresToNode(sn_nodes, sn_found.place, k),
                                          SnapRadius(sn_owner)) }
        IN /\ Reachable # {} =>
                 /\ sn_found.node # << >>
                 /\ sn_found.node[1] \in Nearest
           /\ sn_found.node = << >> => Reachable = {}

\* a lattice of 121 nodes on which one lookup found a node that is not
\* the first and is off the place, and a graph with nodes on which a
\* lookup failed
C25_Witness ==
    /\ sn_found # NoResult
    /\ sn_nodes # << >>
    /\ \/ /\ sn_found.node # << >>
          /\ sn_found.node[1] > 1
          /\ MetresToNode(sn_nodes, sn_found.place, sn_found.node[1]) > 0
          /\ sn_owner = "AdvancedRoutingEngine"
       \/ /\ sn_found.node = << >>
          /\ sn_owner = "RoadNetworkRouter"

(***************************************************************************)
(* Properties of the lattice as a graph                                    *)
(***************************************************************************)
\* the <<from_node, to_node>> pairs of the segments
JoinedPairs(lattice_segments) ==
    { << lattice_segments[n].from_node, lattice_segments[n].to_node >> :
        n \in DOMAIN lattice_segments }

\* nodes a and b are neighbours along one axis of the grid of 11 x 11
AxisNeighbours(a, b) ==
    Abs(NodeRow(a) - NodeRow(b)) + Abs(NodeCol(a) - NodeCol(b)) = 1

\* C26: after any sequence of _build_road_network calls on one engine the
\* graph is the lattice of the most recent call: 11 x 11 nodes, joined only
\* by segments between nodes that are neighbours along one axis (none
\* diagonal), each segment with its reverse, and neither a node nor a
\* segment of an earlier build left.
C26_GraphIsLatestLattice ==
    cc_built_by # 0 =>
        LET Checked(pairs) ==
                /\ \A e \in pairs :
                      /\ AxisNeighbours(e[1], e[2])
                      /\ \/ nodes[e[1]].lat = nodes[e[2]].lat
                         \/ nodes[e[1]].lon = nodes[e[2]].lon
                      /\ << e[2], e[1] >> \in pairs
                /\ Cardinality(pairs) = Len(segments)
                /\ Cardinality(pairs) = 4 * grid_size * (grid_size + 1)
        IN /\ DOMAIN nodes = 1..((grid_size + 1) * (grid_size + 1))
           /\ nodes = OwnLattice(cc_built_by)
           /\ Checked(JoinedPairs(segments))

\* call 2 has built its lattice after call 1, for another request, had
\* built, scored and searched its own
C26_Witness ==
    /\ cc_built_by = 2
    /\ cc_path[1] # NoResult
    /\ cc_path[1].built_by = 1
    /\ cc_path[1].scored_by = 1
    /\ cc_request[1] # cc_request[2]
    /\ cc_path[1].nodes # nodes

(***************************************************************************)
(* Properties of the routes of the internal stages                         *)
(***************************************************************************)
\* the place of a route point
PlaceOf(point) == Coordinates(point.latitude, point.longitude)

\* the route comes from the lattice pathfinder or from the grid fallback
FromInternalStage(route) ==
    route.routing_engine \in { "intelligent_road_network",
                               "grid_aligned_fallback" }

\* C27: a route that the internal stages of calculate_route produced
\* (lattice pathfinder or grid fallback) has its first point at
\* request.start and its last point at request.end.
C27_InternalRouteSpansRequest ==
    (pc = "returned" /\ result.kind = "route"
       /\ FromInternalStage(result.route))
    => /\ result.route.points # << >>
       /\ PlaceOf(result.route.points[1]) = request.start
       /\ PlaceOf(result.route.points[Len(result.route.points)]) = request.end

(***************************************************************************)
(* Properties of the route lookup                                          *)
(***************************************************************************)
\* get_route of api/routes.py: the first cached route with the id, or the
\* HTTPException "Route not found"
get_route(cache, id) ==
    IF \E k \in DOMAIN cache : cache[k].route_id = id
    THEN Returned(cache[CHOOSE k \in DOMAIN cache :
                           /\ cache[k].route_id = id
                           /\ \A m \in DOMAIN cache :
                                 cache[m].route_id = id => k <= m])
    ELSE Raised("Route not found")

\* C28: after the calculate-route operation has returned a route with id
\* r, get_route(r) finds that route in routing_engine.route_cache and does
\* not answer "Route not found".
C28_ReturnedRouteIsFound ==
    (previous.kind = "call" /\ previous.outcome = "route")
    => get_route(route_cache, previous.route_id).kind = "route"

\* C30: when accessibility data is integrated into the lattice, one
\* obstacle lowers the accessibility_score of a segment by its penalty at
\* most once, however many lattice nodes it lies within 100 m of: the
\* score is not below the one that counts every stored obstacle once.
C30_ObstaclePenaltyOnce ==
    (pf_pc = "find" /\ pf_penalized = 0) =>
        \A n \in DOMAIN pf_segments :
            pf_segments[n].accessibility_score
                >= _score_segment_accessibility(pf_nodes,
                       pf_segments[n].from_node, pf_request.preferences,
                       sample_obstacles)

====
